---- MODULE Spec2Model ----
(***************************************************************************)
(* Model of the rosalana/sandbox GLSL preprocessor: Parser, Module,        *)
(* ModuleRegistry (design-time and runtime), Compilable and Shader.        *)
(*                                                                         *)
(* A GLSL text is a sequence of lines (the text split on "\n").  A line is *)
(* a record whose field k names what the Parser's line-anchored regexes    *)
(* recognise on it.  A function sits on one line; its body is a sequence   *)
(* of tokens and a dependency index is a position in that sequence.        *)
(***************************************************************************)
EXTENDS Integers, Sequences, FiniteSets, TLC

VARIABLES modules, runtime_modules, heap, shader, result, draws, clock, host, hooks,
          parser

vars ==
    <<modules, runtime_modules, heap, shader, result, draws, clock, host, hooks,
      parser>>

(***************************************************************************)
(* Bounds                                                                  *)
(***************************************************************************)
\* cap on the number of random suffixes drawn over a behaviour
MaxDraws == 4

(***************************************************************************)
(* Lines of GLSL text                                                      *)
(***************************************************************************)
Blank == [k |-> "blank"]

VersionLine == [k |-> "version"]

PrecisionLine == [k |-> "precision"]

CommentLine == [k |-> "comment"]

ImportLine(name, alias, module) ==
    [k |-> "import", name |-> name, alias |-> alias, module |-> module]

\* a line that begins with #import but does not match the strict form
BadImportLine == [k |-> "badimport"]

\* arrayNum = 0 stands for "no array suffix".  A ShaderUniform record carries,
\* beside name, the field ident: the leading \w+ of name, which is what the
\* uniform regex captures when the rendered declaration is parsed again.
UniformLine(type, name, arrayNum) ==
    [k |-> "uniform", type |-> type, name |-> name, arrayNum |-> arrayNum]

FunctionLine(type, name, body) ==
    [k |-> "function", type |-> type, name |-> name, body |-> body]

Null == [k |-> "null"]

NoFault == [code |-> "none"]

(***************************************************************************)
(* JS Map: insertion-ordered sequence of [key, val]                        *)
(***************************************************************************)
MapHas(m, key) == \E i \in 1..Len(m) : m[i].key = key

MapGet(m, key) == m[CHOOSE i \in 1..Len(m) : m[i].key = key].val

MapSet(m, key, val) ==
    IF MapHas(m, key)
    THEN [i \in 1..Len(m) |->
            IF m[i].key = key THEN [key |-> key, val |-> val] ELSE m[i]]
    ELSE Append(m, [key |-> key, val |-> val])

MapDelete(m, key) == SelectSeq(m, LAMBDA e : e.key # key)

MapValues(m) == [i \in 1..Len(m) |-> m[i].val]

MapKeys(m) == {m[i].key : i \in 1..Len(m)}

\* the members of a set of integers, ascending
RECURSIVE Ascending(_)
Ascending(S) ==
    IF S = {} THEN <<>>
    ELSE LET m == CHOOSE x \in S : \A y \in S : x <= y
         IN <<m>> \o Ascending(S \ {m})

RECURSIVE Flatten(_)
Flatten(ss) == IF ss = <<>> THEN <<>> ELSE Head(ss) \o Flatten(Tail(ss))

(***************************************************************************)
(* Parser                                                                  *)
(***************************************************************************)
Keywords == {"if", "else", "for", "while", "do", "switch", "case",
             "return", "break", "continue", "discard"}

\* tokens that the identifier regex [a-zA-Z_]\w* does not match
Punct == {"(", ")", ";", "+", "*", "1.0"}

findFunctionCalls(body) ==
    LET idx == Ascending({i \in 1..Len(body) :
                            /\ body[i] \notin Punct
                            /\ i < Len(body)
                            /\ body[i + 1] = "("
                            /\ body[i] \notin Keywords})
    IN [j \in 1..Len(idx) |->
          [name |-> body[idx[j]], type |-> "function", index |-> idx[j]]]

findUniformCalls(body, uniforms) ==
    Flatten([u \in 1..Len(uniforms) |->
        LET idx == Ascending({i \in 1..Len(body) : body[i] = uniforms[u].name})
        IN [j \in 1..Len(idx) |->
              [name |-> uniforms[u].name, type |-> "uniform",
               index |-> idx[j]]]])

detectVersion(source) ==
    IF \E i \in 1..Len(source) : source[i].k = "version" THEN 2 ELSE 1

\* the valid imports in source order, each with its 1-based line
ValidImports(source) ==
    LET idx == Ascending({i \in 1..Len(source) : source[i].k = "import"})
    IN [j \in 1..Len(idx) |->
          [name |-> source[idx[j]].name, alias |-> source[idx[j]].alias,
           module |-> source[idx[j]].module, line |-> idx[j]]]

detectImports(source) ==
    LET checked(imports, dup, bad) ==
            IF dup # {}
            THEN [fault |-> [code |-> "SHADER_ERROR",
                             kind |-> "DuplicateImportName",
                             name |-> imports[CHOOSE d \in dup :
                                                \A e \in dup : d <= e].alias,
                             line |-> imports[CHOOSE d \in dup :
                                                \A e \in dup : d <= e].line],
                  imports |-> <<>>]
            ELSE IF bad # {}
            THEN [fault |-> [code |-> "SHADER_ERROR", kind |-> "ImportSyntax",
                             line |-> CHOOSE b \in bad : \A e \in bad : b <= e],
                  imports |-> <<>>]
            ELSE [fault |-> NoFault, imports |-> imports]
        scanned(imports) ==
            checked(imports,
                    {j \in 1..Len(imports) :
                        \E i \in 1..(j - 1) : imports[i].alias = imports[j].alias},
                    {i \in 1..Len(source) : source[i].k = "badimport"})
    IN scanned(ValidImports(source))

detectUniforms(source) ==
    LET idx == Ascending({i \in 1..Len(source) : source[i].k = "uniform"})
    IN [j \in 1..Len(idx) |->
          [name |-> source[idx[j]].name, type |-> source[idx[j]].type,
           line |-> idx[j], arrayNum |-> source[idx[j]].arrayNum,
           ident |-> source[idx[j]].name]]

detectFunctions(source, uniforms) ==
    LET idx == Ascending({i \in 1..Len(source) : source[i].k = "function"})
    IN [j \in 1..Len(idx) |->
          LET ln == source[idx[j]]
          IN [name |-> ln.name, type |-> ln.type, body |-> ln.body,
              dependencies |-> findFunctionCalls(ln.body)
                               \o findUniformCalls(ln.body, uniforms),
              line |-> idx[j]]]

\* Parser.parse on a source with no memo
ParseSource(source) ==
    LET content(imp, uniforms) ==
            IF imp.fault # NoFault
            THEN [fault |-> imp.fault]
            ELSE [fault |-> NoFault,
                  version |-> detectVersion(source),
                  imports |-> imp.imports,
                  uniforms |-> uniforms,
                  functions |-> detectFunctions(source, uniforms)]
    IN content(detectImports(source), detectUniforms(source))

Parser(source) == [source |-> source, parsed |-> Null]

\* the value parse() returns (or the fault it raises)
parse(p) == IF p.parsed # Null THEN p.parsed ELSE ParseSource(p.source)

\* the parser after parse(): the memo is stored unless parse() raised
parsed(p) ==
    LET memo(content) ==
            IF content.fault = NoFault THEN [p EXCEPT !.parsed = content] ELSE p
    IN memo(parse(p))

setSource(p, newSource) == [source |-> newSource, parsed |-> Null]

(***************************************************************************)
(* Globals                                                                 *)
(***************************************************************************)
\* the built-in uniforms, never namespaced (a JS Map name -> type)
UNIFORMS ==
    << [key |-> "u_resolution", val |-> "vec2"],
       [key |-> "u_time",       val |-> "float"],
       [key |-> "u_delta",      val |-> "float"],
       [key |-> "u_mouse",      val |-> "vec2"],
       [key |-> "u_frame",      val |-> "int"] >>

\* outcomes of Math.random().toString(36).substring(2, 8)
Rnd6 == {"k3x9qa", "07zzb2"}

(***************************************************************************)
(* ModuleRegistry: a JS Map name -> Module                                 *)
(***************************************************************************)
has(registry, name) == MapHas(registry, name)

register(registry, name, module) == MapSet(registry, name, module)

resolve(registry, name) == MapGet(registry, name)

remove(registry, name) == MapDelete(registry, name)

clear(registry) == <<>>

\* options live in the heap; a Module holds a reference to its options object
RECURSIVE resolveOptionsFrom(_, _, _, _)
resolveOptionsFrom(registry, h, func, i) ==
    IF i > Len(registry) THEN Null
    ELSE LET options == h[registry[i].val.options]
         IN IF MapHas(options, func)
            THEN MapGet(options, func)
            ELSE resolveOptionsFrom(registry, h, func, i + 1)

resolveOptions(registry, h, func) == resolveOptionsFrom(registry, h, func, 1)

(***************************************************************************)
(* Compilable: construction, rewriting, building                           *)
(***************************************************************************)
Compilable(source) ==
    [isCompiled |-> FALSE,
     original |-> Parser(source),
     compiled |-> Parser(source),
     requirements |-> [uniforms |-> <<>>, functions |-> <<>>]]

\* the requirements bag pre-seeded with initial uniforms (Shader passes
\* them to its super constructor)
SeedRequirements(c, uniforms) ==
    [c EXCEPT !.requirements.uniforms =
        [i \in 1..Len(uniforms) |->
            [key |-> uniforms[i].name, val |-> uniforms[i]]]]

Shader(source) ==
    SeedRequirements(Compilable(source),
        [i \in 1..Len(UNIFORMS) |->
            [name |-> UNIFORMS[i].key, type |-> UNIFORMS[i].val, line |-> 0,
             arrayNum |-> 0, ident |-> UNIFORMS[i].key]])

\* sort by index descending (Array.prototype.sort is stable)
RECURSIVE SortDesc(_)
SortDesc(ops) ==
    IF ops = <<>> THEN <<>>
    ELSE LET i == CHOOSE a \in 1..Len(ops) :
                     /\ \A b \in 1..Len(ops) : ops[b].index <= ops[a].index
                     /\ \A b \in 1..(a - 1) : ops[b].index < ops[a].index
         IN <<ops[i]>> \o SortDesc([j \in 1..(Len(ops) - 1) |->
                                       IF j < i THEN ops[j] ELSE ops[j + 1]])

RECURSIVE applySorted(_, _)
applySorted(text, sorted) ==
    IF sorted = <<>> THEN text
    ELSE applySorted([text EXCEPT ![Head(sorted).index] = Head(sorted).newText],
                     Tail(sorted))

applyRewrites(text, ops) == applySorted(text, SortDesc(ops))

\* a rewriteFunction that also prefixes references to built-in uniforms
pushesOp_builtins(dep, uniformNames, helperNames) ==
    \/ dep.type = "uniform" /\ dep.name \in uniformNames
    \/ dep.type = "function" /\ dep.name \in helperNames

\* whether the loop of rewriteFunction pushes a rewrite for a dependency
pushesOp(dep, uniformNames, helperNames) ==
    \/ /\ dep.type = "uniform"
       /\ dep.name \in uniformNames
       /\ ~MapHas(UNIFORMS, dep.name)
    \/ /\ dep.type = "function"
       /\ dep.name \in helperNames

\* data = [uniforms, functions, rename, unique]
rewriteFunction(func, alias, data) ==
    LET uniformNames == {data.uniforms[i].name : i \in 1..Len(data.uniforms)}
        helperNames == {data.functions[i].name : i \in 1..Len(data.functions)}
        prefix == IF data.unique # "" THEN data.unique ELSE alias
        deps == func.dependencies
        idx == Ascending({i \in 1..Len(deps) :
                            pushesOp(deps[i], uniformNames, helperNames)})
        ops == [j \in 1..Len(idx) |->
                  [index |-> deps[idx[j]].index,
                   oldText |-> deps[idx[j]].name,
                   newText |-> prefix \o "_" \o deps[idx[j]].name]]
    IN [func EXCEPT
          !.name = IF data.rename THEN alias ELSE prefix \o "_" \o func.name,
          !.body = applyRewrites(func.body, ops)]

\* the uniform loop of processExtraction: st = [uniforms, h]
RECURSIVE collectUniforms(_, _, _, _, _, _)
collectUniforms(st, uniforms, i, uniqueAlias, mainName, options) ==
    IF i > Len(uniforms) THEN st
    ELSE LET uniform == uniforms[i]
             ident == uniqueAlias \o "_" \o uniform.name
             namespacedUniform ==
                 [uniform EXCEPT
                    !.name = ident \o (IF uniform.arrayNum # 0
                                       THEN "[" \o ToString(uniform.arrayNum) \o "]"
                                       ELSE ""),
                    !.ident = ident]
             opts == st.h[options]
             entries == IF MapHas(opts, mainName) THEN MapGet(opts, mainName)
                        ELSE <<>>
             found == {j \in 1..Len(entries) : entries[j].val.uniform = uniform.name}
             conf == CHOOSE j \in found : \A e \in found : j <= e
             h1 == IF found # {}
                   THEN [st.h EXCEPT ![options] =
                           MapSet(opts, mainName,
                                  [entries EXCEPT ![conf].val.uniform = ident])]
                   ELSE st.h
         IN IF MapHas(UNIFORMS, uniform.name)
            THEN collectUniforms(st, uniforms, i + 1, uniqueAlias, mainName, options)
            ELSE collectUniforms(
                   [uniforms |-> MapSet(st.uniforms, namespacedUniform.name,
                                        namespacedUniform),
                    h |-> h1],
                   uniforms, i + 1, uniqueAlias, mainName, options)

RECURSIVE collectHelpers(_, _, _, _, _)
collectHelpers(functions, helpers, i, alias, data) ==
    IF i > Len(helpers) THEN functions
    ELSE LET rewrittenHelper == rewriteFunction(helpers[i], alias, data)
         IN collectHelpers(MapSet(functions, rewrittenHelper.name, rewrittenHelper),
                           helpers, i + 1, alias, data)

\* `${alias}_${randomSuffix}`
uniqueAlias(alias, randomSuffix) == alias \o "_" \o randomSuffix

\* options is the reference of the options object to rewrite; yields the
\* Compilable with its new requirements and the heap
processExtraction(c, extraction, alias, options, h, randomSuffix) ==
    LET mainFunc == extraction.function
        unique == uniqueAlias(alias, randomSuffix)
        data == [uniforms |-> extraction.dependencies.uniforms,
                 functions |-> extraction.dependencies.functions,
                 rename |-> FALSE, unique |-> unique]
        withHelpers == collectHelpers(c.requirements.functions,
                                      extraction.dependencies.functions, 1,
                                      alias, data)
        rewrittenMain == rewriteFunction(mainFunc, alias,
                                         [data EXCEPT !.rename = TRUE])
        functions == MapSet(withHelpers, rewrittenMain.name, rewrittenMain)
        st == collectUniforms([uniforms |-> c.requirements.uniforms, h |-> h],
                              extraction.dependencies.uniforms, 1,
                              unique, mainFunc.name, options)
        opts == st.h[options]
        h2 == IF MapHas(opts, mainFunc.name) /\ alias # mainFunc.name
              THEN [st.h EXCEPT ![options] =
                      MapDelete(MapSet(opts, alias, MapGet(opts, mainFunc.name)),
                                mainFunc.name)]
              ELSE st.h
    IN [c |-> [c EXCEPT !.requirements =
                  [uniforms |-> st.uniforms, functions |-> functions]],
        h |-> h2]

(***************************************************************************)
(* build                                                                   *)
(***************************************************************************)
\* a filter that takes the 0-based index for the 1-based line number
shouldRemove_zeroBased(importLineNumbers, index) == index \in importLineNumbers

\* index is 0-based as in Array.prototype.filter, line numbers are 1-based
shouldRemove(importLineNumbers, index) == (index + 1) \in importLineNumbers

removeImportLines(source, content) ==
    LET importLineNumbers == {content.imports[i].line :
                                 i \in 1..Len(content.imports)}
        keep(index) ==
            IF /\ ~shouldRemove(importLineNumbers, index)
               /\ source[index + 1].k = "blank"
               /\ index > 0
               /\ ((index - 1) + 1) \in importLineNumbers
            THEN FALSE
            ELSE ~shouldRemove(importLineNumbers, index)
        kept == Ascending({i \in 1..Len(source) : keep(i - 1)})
    IN \* [].join("\n") is the empty text, whose only line is empty
       IF kept = <<>> THEN <<Blank>>
       ELSE [j \in 1..Len(kept) |-> source[kept[j]]]

\* the header scan: i is the 0-based line index
RECURSIVE scanHeader(_, _, _)
scanHeader(lines, i, insertAfterLine) ==
    IF i >= Len(lines) THEN insertAfterLine
    ELSE LET line == lines[i + 1]
         IN IF line.k \in {"version", "precision"}
            THEN scanHeader(lines, i + 1, i + 1)
            ELSE IF line.k \in {"blank", "comment"}
            THEN scanHeader(lines, i + 1,
                            IF insertAfterLine = i THEN i + 1 ELSE insertAfterLine)
            ELSE insertAfterLine

\* the number of lines that precede the insertion point
findInsertionPointForUniforms(source) ==
    LET after(lines) ==
            IF lines # {}
            THEN CHOOSE l \in lines : \A m \in lines : m <= l
            ELSE scanHeader(source, 0, 0)
        point(content) ==
            after({content.uniforms[i].line : i \in 1..Len(content.uniforms)})
    IN point(ParseSource(source))

\* the number of lines that precede the insertion point, or the fault
findInsertionPointForFunctions(source) ==
    LET before(first) == IF first - 2 > 0 THEN first - 2 ELSE 0
        among(lines) ==
            IF lines # {}
            THEN [fault |-> NoFault,
                  at |-> before(CHOOSE l \in lines : \A m \in lines : l <= m)]
            ELSE [fault |-> [code |-> "SHADER_ERROR", kind |-> "WithoutFunction"],
                  at |-> 0]
        point(content) ==
            among({content.functions[i].line : i \in 1..Len(content.functions)})
    IN point(ParseSource(source))

\* result.slice(0, pos) + generated + result.slice(pos), pos the start of
\* line `at`; the texts modelled end with a newline, so `at` < Len(lines)
insertAt(lines, at, generated) ==
    SubSeq(lines, 1, at) \o generated \o SubSeq(lines, at + 1, Len(lines))

\* a mismatch fault with the two types exchanged
SandboxShaderRequirementMismatchError_swapped(requirement, name, expectedType, actualType) ==
    [code |-> "SHADER_ERROR", kind |-> "RequirementMismatch",
     requirement |-> requirement, name |-> name,
     expectedType |-> actualType, actualType |-> expectedType]

SandboxShaderRequirementMismatchError(requirement, name, expectedType, actualType) ==
    [code |-> "SHADER_ERROR", kind |-> "RequirementMismatch",
     requirement |-> requirement, name |-> name,
     expectedType |-> expectedType, actualType |-> actualType]

\* required uniforms absent from the original source, or a mismatch fault
RECURSIVE checkUniformsFrom(_, _, _, _)
checkUniformsFrom(required, uniforms, i, missing) ==
    IF i > Len(required) THEN [fault |-> NoFault, missing |-> missing]
    ELSE LET name == required[i].key
             uniform == required[i].val
             found == {j \in 1..Len(uniforms) : uniforms[j].name = name}
             existing == uniforms[CHOOSE j \in found : \A e \in found : j <= e]
         IN IF found = {}
            THEN checkUniformsFrom(required, uniforms, i + 1,
                                   Append(missing, uniform))
            ELSE IF existing.type # uniform.type
            THEN [fault |-> SandboxShaderRequirementMismatchError(
                               "uniform", name, uniform.type, existing.type),
                  missing |-> missing]
            ELSE checkUniformsFrom(required, uniforms, i + 1, missing)

checkUniformsPresence(c) ==
    checkUniformsFrom(c.requirements.uniforms, parse(c.original).uniforms,
                      1, <<>>)

RECURSIVE checkFunctionsFrom(_, _, _, _)
checkFunctionsFrom(required, functions, i, missing) ==
    IF i > Len(required) THEN [fault |-> NoFault, missing |-> missing]
    ELSE LET name == required[i].key
             func == required[i].val
             found == {j \in 1..Len(functions) : functions[j].name = name}
             existing == functions[CHOOSE j \in found : \A e \in found : j <= e]
         IN IF found = {}
            THEN checkFunctionsFrom(required, functions, i + 1,
                                    Append(missing, func))
            ELSE IF existing.type # func.type
            THEN [fault |-> SandboxShaderRequirementMismatchError(
                               "function", name, func.type, existing.type),
                  missing |-> missing]
            ELSE checkFunctionsFrom(required, functions, i + 1, missing)

checkFunctionsPresence(c) ==
    checkFunctionsFrom(c.requirements.functions, parse(c.original).functions,
                       1, <<>>)

\* the generated lines ("uniform <type> <name>;" each), or the fault
generateUniformsCode(c) ==
    LET code(chk) ==
            IF chk.fault # NoFault THEN [fault |-> chk.fault, lines |-> <<>>]
            ELSE [fault |-> NoFault,
                  lines |-> [i \in 1..Len(chk.missing) |->
                               UniformLine(chk.missing[i].type,
                                           chk.missing[i].ident,
                                           chk.missing[i].arrayNum)]]
    IN IF Len(c.requirements.uniforms) = 0
       THEN [fault |-> NoFault, lines |-> <<>>]
       ELSE code(checkUniformsPresence(c))

\* the generated lines: each part is "\n<type> <name>(<params>) <body>",
\* the parts joined by "\n" and closed by "\n"
generateFunctionCode(c) ==
    LET code(chk) ==
            IF chk.fault # NoFault THEN [fault |-> chk.fault, lines |-> <<>>]
            ELSE [fault |-> NoFault,
                  lines |-> Flatten([i \in 1..Len(chk.missing) |->
                               <<Blank, FunctionLine(chk.missing[i].type,
                                                     chk.missing[i].name,
                                                     chk.missing[i].body)>>])]
    IN IF Len(c.requirements.functions) = 0
       THEN [fault |-> NoFault, lines |-> <<>>]
       ELSE code(checkFunctionsPresence(c))

\* the text as its non-empty lines separated by newline marks
NL == [k |-> "newline"]

RECURSIVE joinLines(_)
joinLines(lines) ==
    IF lines = <<>> THEN <<>>
    ELSE (IF Head(lines) = Blank THEN <<>> ELSE <<Head(lines)>>)
         \o (IF Len(lines) > 1 THEN <<NL>> \o joinLines(Tail(lines)) ELSE <<>>)

\* text.replace(/\n{3,}/g, "\n\n")
RECURSIVE collapseFrom(_, _, _)
collapseFrom(text, i, run) ==
    IF i > Len(text) THEN <<>>
    ELSE IF text[i] = NL
    THEN (IF run >= 2 THEN <<>> ELSE <<NL>>) \o collapseFrom(text, i + 1, run + 1)
    ELSE <<text[i]>> \o collapseFrom(text, i + 1, 0)

\* text.split("\n")
RECURSIVE splitFrom(_, _, _)
splitFrom(text, i, current) ==
    IF i > Len(text) THEN <<current>>
    ELSE IF text[i] = NL
    THEN <<current>> \o splitFrom(text, i + 1, Blank)
    ELSE splitFrom(text, i + 1, text[i])

collapseNewlines(lines) == splitFrom(collapseFrom(joinLines(lines), 1, 0), 1, Blank)

\* the compiled text, or the fault raised on the way
build(c) ==
    LET withFunctions(withUniforms, insertionPointForFunctions,
                      generatedFunctionsCode) ==
            IF insertionPointForFunctions.fault # NoFault
            THEN [fault |-> insertionPointForFunctions.fault, text |-> <<>>]
            ELSE IF generatedFunctionsCode.fault # NoFault
            THEN [fault |-> generatedFunctionsCode.fault, text |-> <<>>]
            ELSE [fault |-> NoFault,
                  text |-> collapseNewlines(
                     IF generatedFunctionsCode.lines # <<>>
                     THEN insertAt(withUniforms, insertionPointForFunctions.at,
                                   generatedFunctionsCode.lines)
                     ELSE withUniforms)]
        functionsInto(withUniforms) ==
            withFunctions(withUniforms,
                          findInsertionPointForFunctions(withUniforms),
                          generateFunctionCode(c))
        withUniforms(stripped, generatedUniformsCode) ==
            IF generatedUniformsCode.fault # NoFault
            THEN [fault |-> generatedUniformsCode.fault, text |-> <<>>]
            ELSE functionsInto(
                   IF generatedUniformsCode.lines # <<>>
                   THEN insertAt(stripped, findInsertionPointForUniforms(stripped),
                                 generatedUniformsCode.lines \o <<Blank>>)
                   ELSE stripped)
    IN withUniforms(removeImportLines(c.original.source, parse(c.original)),
                    generateUniformsCode(c))

(***************************************************************************)
(* Module                                                                  *)
(***************************************************************************)
\* the per-function merge of the default option set
RECURSIVE mergeDefault(_, _, _)
mergeDefault(fnOptions, defaultConfig, i) ==
    IF i > Len(defaultConfig) THEN fnOptions
    ELSE mergeDefault(
           IF MapHas(fnOptions, defaultConfig[i].key) THEN fnOptions
           ELSE Append(fnOptions, defaultConfig[i]),
           defaultConfig, i + 1)

RECURSIVE applyDefault(_, _, _, _)
applyDefault(options, functions, i, defaultConfig) ==
    IF i > Len(functions) THEN options
    ELSE LET fn == functions[i]
         IN IF fn.name \in {"main", "default"}
            THEN applyDefault(options, functions, i + 1, defaultConfig)
            ELSE applyDefault(
                   MapSet(options, fn.name,
                          IF MapHas(options, fn.name)
                          THEN mergeDefault(MapGet(options, fn.name),
                                            defaultConfig, 1)
                          ELSE defaultConfig),
                   functions, i + 1, defaultConfig)

\* Module.resolveOptions (the private normalisation run by the constructor)
normaliseOptions(options, functions) ==
    IF ~MapHas(options, "default") THEN options
    ELSE MapDelete(applyDefault(options, functions, 1,
                                MapGet(options, "default")),
                   "default")

\* Module constructor: options is the reference of the caller's options
\* object, which the constructor normalises in place
Module(name, source, options, h) ==
    LET needsParse == MapHas(h[options], "default")
        made(base, content) ==
            IF needsParse /\ content.fault # NoFault
            THEN [fault |-> content.fault, module |-> Null, h |-> h]
            ELSE [fault |-> NoFault,
                  module |-> [isCompiled |-> FALSE,
                              original |-> IF needsParse
                                           THEN [base.original EXCEPT
                                                   !.parsed = content]
                                           ELSE base.original,
                              compiled |-> base.compiled,
                              requirements |-> base.requirements,
                              name |-> name,
                              options |-> options],
                  h |-> IF needsParse
                        THEN [h EXCEPT ![options] =
                                normaliseOptions(@, content.functions)]
                        ELSE h]
    IN made(Compilable(source), ParseSource(source))

\* a copy that keeps the options object of the module it copies
copy_shared(module, h) ==
    Module(module.name, module.original.source, module.options, h)

\* copy(): JSON.parse(JSON.stringify(options)) makes a new options object,
\* here allocated at the reference that belongs to the runtime copy
copy(module, h) ==
    LET ref == <<"runtime_modules", module.name>>
    IN Module(module.name, module.original.source, ref,
              [h EXCEPT ![ref] = h[module.options]])

\* st = [functions, uniforms, visited]
RECURSIVE collectDependencies(_, _, _, _)
collectDependencies(deps, i, scope, st) ==
    IF i > Len(deps) THEN st
    ELSE LET dep == deps[i]
             foundF == {j \in 1..Len(scope.functions) :
                          scope.functions[j].name = dep.name}
             depFunc == scope.functions[CHOOSE j \in foundF :
                                           \A e \in foundF : j <= e]
             foundU == {j \in 1..Len(scope.uniforms) :
                          scope.uniforms[j].name = dep.name}
             depUniform == scope.uniforms[CHOOSE j \in foundU :
                                             \A e \in foundU : j <= e]
         IN IF dep.type = "function"
            THEN IF dep.name \in st.visited
                 THEN collectDependencies(deps, i + 1, scope, st)
                 ELSE IF foundF # {}
                 THEN collectDependencies(deps, i + 1, scope,
                        collectDependencies(depFunc.dependencies, 1, scope,
                          [st EXCEPT !.visited = @ \cup {dep.name},
                                     !.functions = MapSet(@, dep.name, depFunc)]))
                 ELSE collectDependencies(deps, i + 1, scope, st)
            ELSE IF foundU # {} /\ ~MapHas(st.uniforms, dep.name)
                 THEN collectDependencies(deps, i + 1, scope,
                        [st EXCEPT !.uniforms = MapSet(@, dep.name, depUniform)])
                 ELSE collectDependencies(deps, i + 1, scope, st)

\* a visited set that starts empty
visited_empty(name) == {}

\* new Set([name])
visited(name) == {name}

\* an extract() for which main and default are names like any other
extractFrom_anyName(moduleName, name, content) ==
    LET found == {j \in 1..Len(content.functions) :
                     content.functions[j].name = name}
        method == content.functions[CHOOSE j \in found : \A e \in found : j <= e]
        st == collectDependencies(method.dependencies, 1,
                [functions |-> content.functions, uniforms |-> content.uniforms],
                [functions |-> <<>>, uniforms |-> <<>>, visited |-> visited(name)])
    IN IF found = {}
       THEN [fault |-> [code |-> "MODULE_ERROR", kind |-> "ModuleMethodNotFound",
                        moduleName |-> moduleName, methodName |-> name]]
       ELSE [fault |-> NoFault,
             function |-> method,
             dependencies |-> [functions |-> MapValues(st.functions),
                               uniforms |-> MapValues(st.uniforms)]]

\* the part of extract() that follows compile(): content is the parse of
\* the compiled source
extractFrom(moduleName, name, content) ==
    LET found == {j \in 1..Len(content.functions) :
                     content.functions[j].name = name}
        method == content.functions[CHOOSE j \in found : \A e \in found : j <= e]
        st == collectDependencies(method.dependencies, 1,
                [functions |-> content.functions, uniforms |-> content.uniforms],
                [functions |-> <<>>, uniforms |-> <<>>, visited |-> visited(name)])
    IN IF name = "main"
       THEN [fault |-> [code |-> "SHADER_ERROR", kind |-> "AttemptedToImportMain",
                        moduleName |-> moduleName]]
       ELSE IF name = "default"
       THEN [fault |-> [code |-> "SHADER_ERROR",
                        kind |-> "AttemptedToImportDefault",
                        moduleName |-> moduleName]]
       ELSE IF found = {}
       THEN [fault |-> [code |-> "MODULE_ERROR", kind |-> "ModuleMethodNotFound",
                        moduleName |-> moduleName, methodName |-> name]]
       ELSE [fault |-> NoFault,
             function |-> method,
             dependencies |-> [functions |-> MapValues(st.functions),
                               uniforms |-> MapValues(st.uniforms)]]

(***************************************************************************)
(* compile(): the pipeline over the world W = [modules, runtime_modules,   *)
(* heap, rnd, used].  rnd is the sequence of suffixes Math.random yields   *)
(* during the call and used counts those consumed.  Every operator yields  *)
(* the objects as the call leaves them, also when it raises a fault.       *)
(***************************************************************************)
RECURSIVE compile(_, _)

RECURSIVE processImports(_, _, _, _)

\* Module.extract on the module registered under moduleName
extract(moduleName, name, W) ==
    LET extracted(r, content, e) ==
            [fault |-> e.fault,
             W |-> [r.W EXCEPT !.modules =
                      register(@, moduleName,
                               [r.c EXCEPT !.compiled.parsed = content])],
             extraction |-> e]
        compiled(r, content) ==
            IF r.fault # NoFault
            THEN [fault |-> r.fault,
                  W |-> [r.W EXCEPT !.modules = register(@, moduleName, r.c)],
                  extraction |-> Null]
            ELSE extracted(r, content, extractFrom(moduleName, name, content))
        after(r) == compiled(r, parse(r.c.compiled))
    IN after(compile(resolve(W.modules, moduleName), W))

processImports(c, W, imports, i) ==
    IF i > Len(imports) THEN [c |-> c, W |-> W, fault |-> NoFault]
    ELSE LET imp == imports[i]
             processed(e, cp, pe) ==
                 processImports(pe.c,
                     [e.W EXCEPT
                        !.heap = pe.h,
                        !.used = @ + 1,
                        !.runtime_modules = register(@, imp.module, cp.module)],
                     imports, i + 1)
             copied(e, cp) ==
                 processed(e, cp,
                     processExtraction(c, e.extraction, imp.alias,
                                       cp.module.options, cp.h,
                                       e.W.rnd[e.W.used + 1]))
             extracted(e) ==
                 IF e.fault # NoFault
                 THEN [c |-> c, W |-> e.W, fault |-> e.fault]
                 ELSE copied(e, copy(resolve(e.W.modules, imp.module), e.W.heap))
         IN IF ~has(W.modules, imp.module)
            THEN [c |-> c, W |-> W,
                  fault |-> [code |-> "MODULE_ERROR", kind |-> "ModuleNotFound",
                             moduleName |-> imp.module]]
            ELSE extracted(extract(imp.module, imp.name, W))

\* compile() past its cache check: parse, resolve the imports, build
pipeline(c, W) ==
    LET built(r, b) ==
            IF b.fault # NoFault
            THEN [c |-> r.c, W |-> r.W, fault |-> b.fault]
            ELSE [c |-> [r.c EXCEPT !.compiled = setSource(@, b.text),
                                    !.isCompiled = TRUE],
                  W |-> r.W, fault |-> NoFault]
        resolved(r) == IF r.fault # NoFault THEN r ELSE built(r, build(r.c))
        imported(content, c1) ==
            resolved(IF Len(content.imports) > 0
                     THEN processImports(c1, W, content.imports, 1)
                     ELSE [c |-> c1, W |-> W, fault |-> NoFault])
        parsedAs(content) ==
            IF content.fault # NoFault
            THEN [c |-> c, W |-> W, fault |-> content.fault]
            ELSE imported(content, [c EXCEPT !.original.parsed = content])
    IN parsedAs(parse(c.original))

\* a compile() that ignores its compiled flag
compile_uncached(c, W) == pipeline(c, W)

compile(c, W) ==
    IF c.isCompiled THEN [c |-> c, W |-> W, fault |-> NoFault]
    ELSE pipeline(c, W)

recompile(c, W) == compile([c EXCEPT !.isCompiled = FALSE], W)

(***************************************************************************)
(* The sources the model draws from.  Every text ends with a newline, so   *)
(* its last line is empty.                                                 *)
(***************************************************************************)
Option(key, uniform, default) ==
    [key |-> key, val |-> [uniform |-> uniform, default |-> default]]

FxSource ==
    << UniformLine("float", "u_intensity", 0),
       UniformLine("float", "u_time", 0),
       UniformLine("vec3", "u_colors", 4),
       FunctionLine("float", "hash", <<"return", "u_time", ";">>),
       FunctionLine("float", "noise",
                    <<"return", "hash", "(", ")", "*", "u_intensity", ";">>),
       FunctionLine("vec3", "effect",
                    <<"return", "noise", "(", ")", "+", "sin", "(", "u_time", ")", ";">>),
       FunctionLine("vec3", "gradient",
                    <<"return", "u_colors", "+", "gradient", "(", ")", ";">>),
       FunctionLine("float", "turbulence", <<"return", "noise", "(", ")", ";">>),
       Blank >>

FxOptions ==
    << [key |-> "effect", val |-> <<Option("intensity", "u_intensity", 1)>>],
       [key |-> "gradient", val |-> <<Option("colors", "u_colors", 0)>>] >>

CascadeSource ==
    << ImportLine("noise", "grain", "fx"),
       UniformLine("float", "u_amount", 0),
       FunctionLine("vec3", "blend",
                    <<"return", "grain", "(", ")", "*", "u_amount", ";">>),
       Blank >>

CascadeOptions ==
    << [key |-> "default", val |-> <<Option("amount", "u_amount", 5)>>] >>

ModuleDefinitions ==
    << [name |-> "fx", source |-> FxSource, options |-> FxOptions],
       [name |-> "cascade", source |-> CascadeSource, options |-> CascadeOptions] >>

ModuleNames == {ModuleDefinitions[i].name : i \in 1..Len(ModuleDefinitions)}

Main(body) == FunctionLine("void", "main", body)

ShaderSources ==
    { \* no import, one built-in declared by the author
      << PrecisionLine, UniformLine("float", "u_time", 0),
         Main(<<"u_time", ";">>), Blank >>,
      \* the same function under two aliases
      << ImportLine("effect", "soft", "fx"), ImportLine("effect", "hard", "fx"),
         Main(<<"soft", "(", ")", "+", "hard", "(", ")", ";">>), Blank >>,
      \* two functions of one module, one built-in declared by the author
      << VersionLine, PrecisionLine,
         ImportLine("effect", "effect", "fx"), ImportLine("gradient", "gradient", "fx"),
         Blank, UniformLine("float", "u_time", 0),
         Main(<<"effect", "(", ")", "+", "gradient", "(", ")", ";">>), Blank >>,
      \* one aliased import
      << ImportLine("gradient", "ramp", "fx"),
         UniformLine("vec2", "u_resolution", 0),
         Main(<<"ramp", "(", ")", ";">>), Blank >>,
      \* a cascading module
      << CommentLine, ImportLine("blend", "blend", "cascade"),
         Main(<<"blend", "(", ")", ";">>), Blank >>,
      \* a built-in declared with another type
      << UniformLine("vec4", "u_time", 0), Main(<<"u_time", ";">>), Blank >>,
      \* the same beside an import
      << ImportLine("gradient", "ramp", "fx"), UniformLine("int", "u_mouse", 0),
         Main(<<"ramp", "(", ")", ";">>), Blank >>,
      \* a function the module does not have, behind an import that resolves
      << ImportLine("effect", "soft", "fx"), ImportLine("nothing", "nothing", "fx"),
         Main(<<"soft", "(", ")", ";">>), Blank >>,
      \* a module that is not registered
      << ImportLine("effect", "effect", "missing"),
         Main(<<"effect", "(", ")", ";">>), Blank >>,
      \* main and default cannot be imported
      << ImportLine("main", "start", "fx"), Main(<<"start", "(", ")", ";">>), Blank >>,
      << ImportLine("default", "base", "cascade"),
         Main(<<"base", "(", ")", ";">>), Blank >>,
      \* no function at all
      << ImportLine("gradient", "ramp", "fx"), UniformLine("float", "u_speed", 0),
         Blank >>,
      \* every built-in declared by the author, the last one right above main
      << ImportLine("hash", "hash", "fx"),
         UniformLine("vec2", "u_resolution", 0), UniformLine("float", "u_delta", 0),
         UniformLine("vec2", "u_mouse", 0), UniformLine("int", "u_frame", 0),
         UniformLine("float", "u_time", 0),
         Main(<<"hash", "(", ")", ";">>), Blank >> }

(***************************************************************************)
(* Clock and the host that schedules its ticks.  Times are whole           *)
(* milliseconds: time and delta hold the milliseconds of the seconds the   *)
(* program stores, so `time * 1000` and `/ 1000` are changes of unit.  The *)
(* smoothed fps, which no operation reads, is left out.                    *)
(*                                                                         *)
(* host = [now, pending, batch]: performance.now(), the handles waiting    *)
(* for the next frame and the handles of the frame that is being run, both *)
(* in the order of the requests.  A handle is told from the others the     *)
(* program can still name; which number it is does not matter.  Operators  *)
(* on the clock take and yield k = [clock, host, calls], calls being the   *)
(* snapshots handed to the callback.                                       *)
(***************************************************************************)
\* rafId = null: handles count from 1
NoHandle == 0

\* callback = null
NoCallback == "null"

Clock ==
    [time |-> 0, delta |-> 0, frame |-> 0, running |-> FALSE,
     startTime |-> 0, lastTime |-> 0, rafId |-> NoHandle, callback |-> NoCallback,
     maxFps |-> 0]

Host == [now |-> 0, pending |-> <<>>, batch |-> <<>>]

Without(seq, id) == SelectSeq(seq, LAMBDA h : h # id)

\* a handle that is neither waiting nor held in rafId
handle(k) ==
    LET taken == {k.host.pending[i] : i \in 1..Len(k.host.pending)}
                   \cup {k.host.batch[i] : i \in 1..Len(k.host.batch)}
                   \cup {k.clock.rafId}
        free == {h \in 1..(Cardinality(taken) + 1) : h \notin taken}
    IN CHOOSE h \in free : \A g \in free : h <= g

\* the handle returned is the last of host.pending afterwards
requestAnimationFrame(k) == [k EXCEPT !.host.pending = Append(@, handle(k))]

requested(k) == k.host.pending[Len(k.host.pending)]

\* a cancelled handle is run neither in the next frame nor in the rest of
\* the frame that is being run
cancelAnimationFrame(k, id) ==
    [k EXCEPT !.host.pending = Without(@, id), !.host.batch = Without(@, id)]

getState(c) ==
    [time |-> c.time, delta |-> c.delta, frame |-> c.frame, running |-> c.running]

\* start() without the test of running
start_unguarded(k, callback) ==
    LET now == k.host.now
        scheduled(r) == [r EXCEPT !.clock.rafId = requested(r)]
    IN scheduled(requestAnimationFrame(
         [k EXCEPT !.clock.callback = callback,
                   !.clock.running = TRUE,
                   !.clock.startTime = IF k.clock.frame = 0 THEN now
                                       ELSE now - k.clock.time,
                   !.clock.lastTime = now]))

start(k, callback) ==
    LET now == k.host.now
        scheduled(r) == [r EXCEPT !.clock.rafId = requested(r)]
    IN IF k.clock.running THEN k
       ELSE scheduled(requestAnimationFrame(
              [k EXCEPT !.clock.callback = callback,
                        !.clock.running = TRUE,
                        !.clock.startTime = IF k.clock.frame = 0 THEN now
                                            ELSE now - k.clock.time,
                        !.clock.lastTime = now]))

stop(k) ==
    LET stopped == [k EXCEPT !.clock.running = FALSE]
    IN IF ~k.clock.running THEN k
       ELSE IF k.clock.rafId # NoHandle
       THEN [cancelAnimationFrame(stopped, k.clock.rafId) EXCEPT
               !.clock.rafId = NoHandle]
       ELSE stopped

reset(k) ==
    [stop(k) EXCEPT !.clock.time = 0, !.clock.delta = 0, !.clock.frame = 0]

\* the moment from which the pausing callback stops the clock
PauseAt == 20

\* the callbacks a clock is started with: "render" leaves the clock alone,
\* "pause" stops it once state.time has reached PauseAt
Callbacks == {"render", "pause"}

invoke(k, state) ==
    LET told == [k EXCEPT !.calls = Append(@, state)]
    IN IF k.clock.callback = "pause" /\ state.time >= PauseAt
       THEN stop(told)
       ELSE told

\* tick() that writes dt into time
tick_absolute(k, dt) ==
    LET stepped == [k EXCEPT !.clock.delta = dt,
                             !.clock.time = dt,
                             !.clock.frame = @ + 1]
    IN IF stepped.clock.callback # NoCallback
       THEN invoke(stepped, getState(stepped.clock))
       ELSE stepped

tick(k, dt) ==
    LET stepped == [k EXCEPT !.clock.delta = dt,
                             !.clock.time = @ + dt,
                             !.clock.frame = @ + 1]
    IN IF stepped.clock.callback # NoCallback
       THEN invoke(stepped, getState(stepped.clock))
       ELSE stepped

setTime(k, time) == [k EXCEPT !.clock.time = time]

setMaxFps(k, fps) == [k EXCEPT !.clock.maxFps = fps]

\* a limit that compares with the gap the other way round
tooEarly_late(c, timestamp) == (timestamp - c.lastTime) * c.maxFps > 1000

\* timestamp - lastTime < 1000 / maxFps, in whole numbers
tooEarly(c, timestamp) == (timestamp - c.lastTime) * c.maxFps < 1000

\* loop() that takes a skipped tick for the last frame
loop_skipCounts(k, timestamp) ==
    LET scheduled(r) == [r EXCEPT !.clock.rafId = requested(r)]
        rendered == [k EXCEPT !.clock.delta = timestamp - k.clock.lastTime,
                              !.clock.lastTime = timestamp,
                              !.clock.time = timestamp - k.clock.startTime,
                              !.clock.frame = @ + 1]
    IN IF ~k.clock.running THEN k
       ELSE IF k.clock.maxFps > 0 /\ tooEarly(k.clock, timestamp)
       THEN scheduled(requestAnimationFrame([k EXCEPT !.clock.lastTime = timestamp]))
       ELSE scheduled(requestAnimationFrame(
              IF rendered.clock.callback # NoCallback
              THEN invoke(rendered, getState(rendered.clock))
              ELSE rendered))

\* loop() without the test of running
loop_unguarded(k, timestamp) ==
    LET scheduled(r) == [r EXCEPT !.clock.rafId = requested(r)]
        rendered == [k EXCEPT !.clock.delta = timestamp - k.clock.lastTime,
                              !.clock.lastTime = timestamp,
                              !.clock.time = timestamp - k.clock.startTime,
                              !.clock.frame = @ + 1]
    IN IF k.clock.maxFps > 0 /\ tooEarly(k.clock, timestamp)
       THEN scheduled(requestAnimationFrame(k))
       ELSE scheduled(requestAnimationFrame(
              IF rendered.clock.callback # NoCallback
              THEN invoke(rendered, getState(rendered.clock))
              ELSE rendered))

loop(k, timestamp) ==
    LET scheduled(r) == [r EXCEPT !.clock.rafId = requested(r)]
        rendered == [k EXCEPT !.clock.delta = timestamp - k.clock.lastTime,
                              !.clock.lastTime = timestamp,
                              !.clock.time = timestamp - k.clock.startTime,
                              !.clock.frame = @ + 1]
    IN IF ~k.clock.running THEN k
       ELSE IF k.clock.maxFps > 0 /\ tooEarly(k.clock, timestamp)
       THEN scheduled(requestAnimationFrame(k))
       ELSE scheduled(requestAnimationFrame(
              IF rendered.clock.callback # NoCallback
              THEN invoke(rendered, getState(rendered.clock))
              ELSE rendered))

(***************************************************************************)
(* Hooks: the callbacks in the order they were added, each under the id it *)
(* was given.  A callback is one of HookFns; returned tells what it gives  *)
(* back for a state.  hooks = [list, ids], ids counting the ids given out. *)
(***************************************************************************)
Hooks == [list |-> <<>>, ids |-> 0]

HookFns == {"void", "false", "zero", "late", "throw"}

\* the moment after which the callback "late" returns false
LateAfter == 5

returned(fn, state) ==
    CASE fn = "void" -> "undefined"
      [] fn = "false" -> "false"
      [] fn = "zero" -> "0"
      [] fn = "late" -> IF state.time > LateAfter THEN "false" ELSE "undefined"
      [] fn = "throw" -> "throws"

SandboxOnHookCallbackError(id) ==
    [code |-> "UNKNOWN_ERROR", kind |-> "OnHookCallback", id |-> id]

\* add() that puts the callback in front
add_front(h, fn) ==
    [list |-> <<[id |-> h.ids + 1, fn |-> fn]>> \o h.list, ids |-> h.ids + 1]

\* add(cb): the removal function it returns is removeHook with the new id
add(h, fn) ==
    [list |-> Append(h.list, [id |-> h.ids + 1, fn |-> fn]), ids |-> h.ids + 1]

removeHook(h, id) == [h EXCEPT !.list = SelectSeq(@, LAMBDA e : e.id # id)]

destroy(h) == [h EXCEPT !.list = <<>>]

\* a test that takes every falsy value for false
removes_falsy(value) == value \in {"false", "0", "undefined"}

\* result === false
removes(value) == value = "false"

\* a throw that empties the collection
thrown_cleared(h, calls, e) ==
    [hooks |-> destroy(h), calls |-> calls, fault |-> SandboxOnHookCallbackError(e.id)]

\* the exception of a callback leaves the collection as it is
thrown(h, calls, e) ==
    [hooks |-> h, calls |-> calls, fault |-> SandboxOnHookCallbackError(e.id)]

\* run(state) over the callbacks registered when it began
RECURSIVE runFrom(_, _, _, _, _)
runFrom(h, entries, i, state, calls) ==
    IF i > Len(entries) THEN [hooks |-> h, calls |-> calls, fault |-> NoFault]
    ELSE LET e == entries[i]
             value == returned(e.fn, state)
         IN IF value = "throws" THEN thrown(h, Append(calls, e.id), e)
            ELSE runFrom(IF removes(value) THEN removeHook(h, e.id) ELSE h,
                         entries, i + 1, state, Append(calls, e.id))

run(h, state) == runFrom(h, h.list, 1, state, <<>>)

(***************************************************************************)
(* State                                                                   *)
(***************************************************************************)
Refs == {<<"modules", n>> : n \in ModuleNames}
        \cup {<<"runtime_modules", n>> : n \in ModuleNames}

\* the registry after `new ModuleRegistry([new Module(...), ...])`
RECURSIVE loadDefinitions(_, _, _)
loadDefinitions(defs, i, st) ==
    IF i > Len(defs) THEN st
    ELSE LET def == defs[i]
             ref == <<"modules", def.name>>
             loaded(made) ==
                 loadDefinitions(defs, i + 1,
                   [registry |-> register(st.registry, def.name, made.module),
                    h |-> made.h])
         IN loaded(Module(def.name, def.source, ref,
                          [st.h EXCEPT ![ref] = def.options]))

Loaded == loadDefinitions(ModuleDefinitions, 1,
                          [registry |-> <<>>, h |-> [r \in Refs |-> Null]])

NoResult == [op |-> "none", status |-> "none"]

Init ==
    /\ modules = Loaded.registry
    /\ runtime_modules = <<>>
    /\ heap = Loaded.h
    /\ shader \in {Shader(src) : src \in ShaderSources}
    /\ result = NoResult
    /\ draws = 0
    /\ clock = Clock
    /\ host = Host
    /\ hooks = Hooks
    /\ parser = Parser(<<Blank>>)

(***************************************************************************)
(* Operations                                                              *)
(***************************************************************************)
\* longest run of suffixes one compile() can draw from the sources above
RndLen == 3

World(rnd) ==
    [modules |-> modules, runtime_modules |-> runtime_modules, heap |-> heap,
     rnd |-> rnd, used |-> 0]

Outcome(op, r) ==
    IF r.fault = NoFault
    THEN [op |-> op, status |-> "ok", text |-> r.c.compiled.source]
    ELSE [op |-> op, status |-> "fault", fault |-> r.fault]

Commit(op, r) ==
    /\ shader' = r.c
    /\ modules' = r.W.modules
    /\ runtime_modules' = r.W.runtime_modules
    /\ heap' = r.W.heap
    /\ draws' = draws + r.W.used
    /\ result' = Outcome(op, r)
    /\ UNCHANGED <<clock, host, hooks, parser>>

\* a new Shader object over another source
NewShader ==
    \E src \in ShaderSources :
        /\ shader' = Shader(src)
        /\ result' = [op |-> "new", status |-> "none"]
        /\ UNCHANGED <<modules, runtime_modules, heap, draws, clock, host, hooks, parser>>

Compile ==
    /\ draws < MaxDraws
    /\ \E rnd \in [1..RndLen -> Rnd6] : Commit("compile", compile(shader, World(rnd)))

Recompile ==
    /\ draws < MaxDraws
    /\ \E rnd \in [1..RndLen -> Rnd6] : Commit("recompile", recompile(shader, World(rnd)))

\* runtime_modules.clear() on a shader switch; the copies it held become
\* unreachable
ClearRuntime ==
    /\ runtime_modules' = clear(runtime_modules)
    /\ heap' = [r \in Refs |-> IF r[1] = "runtime_modules" THEN Null ELSE heap[r]]
    /\ result' = [op |-> "clear", status |-> "none"]
    /\ UNCHANGED <<modules, shader, draws, clock, host, hooks, parser>>

Next == NewShader \/ Compile \/ Recompile \/ ClearRuntime

Spec == Init /\ [][Next]_vars

(***************************************************************************)
(* What the properties below speak about                                   *)
(***************************************************************************)
Compiled == result.status = "ok"

AfterCompile == result.op \in {"compile", "recompile"}

Text == result.text

TheImports == ValidImports(shader.original.source)

Aliases == {TheImports[i].alias : i \in 1..Len(TheImports)}

AuthoredFunctions ==
    {shader.original.source[i].name :
        i \in {j \in 1..Len(shader.original.source) :
                  shader.original.source[j].k = "function"}}

AuthoredUniforms ==
    {shader.original.source[i].name :
        i \in {j \in 1..Len(shader.original.source) :
                  shader.original.source[j].k = "uniform"}}

\* positions in the output of the functions that compile() spliced in
SplicedAt ==
    {i \in 1..Len(Text) : /\ Text[i].k = "function"
                          /\ Text[i].name \notin AuthoredFunctions}

Calls(body, name) ==
    \E p \in 1..(Len(body) - 1) : body[p] = name /\ body[p + 1] = "("

\* number of declarations of a uniform name in the output
Declarations(name) ==
    Cardinality({i \in 1..Len(Text) : Text[i].k = "uniform" /\ Text[i].name = name})

BuiltIns == MapKeys(UNIFORMS)

DesignOptions(moduleName) == heap[<<"modules", moduleName>>]

(***************************************************************************)
(* C1: in the compiled text every helper function pulled in by an import   *)
(* is defined earlier than every call to it from another spliced-in        *)
(* function.                                                               *)
(***************************************************************************)
C1_HelperDefinedBeforeUse ==
    Compiled =>
        \A i \in SplicedAt : \A j \in SplicedAt :
            (/\ i # j
             /\ Text[i].name \notin Aliases
             /\ Calls(Text[j].body, Text[i].name)) => i < j

\* uniform names declared in the output
DeclaredUniforms == {Text[i].name : i \in {j \in 1..Len(Text) : Text[j].k = "uniform"}}

\* the names `<alias>_<six base-36 characters>_<name>`
Namespaced(alias, name) == {alias \o "_" \o r \o "_" \o name : r \in Rnd6}

ImportedTwice ==
    \E i \in 1..Len(TheImports) : \E j \in 1..Len(TheImports) :
        i # j /\ TheImports[i].module = TheImports[j].module

HasOptions(imp) == MapHas(DesignOptions(imp.module), imp.name)

\* the runtime registry still holds a copy of every module the shader imports
RuntimeHolds ==
    \A i \in 1..Len(TheImports) : has(runtime_modules, TheImports[i].module)

\* the option record has the keys and defaults of the design-time record
\* and names, for each, the uniform the output declares for the alias
Remapped(rec, design, alias) ==
    /\ rec # Null
    /\ Len(rec) = Len(design)
    /\ \A k \in 1..Len(rec) :
          /\ rec[k].key = design[k].key
          /\ rec[k].val.default = design[k].val.default
          /\ rec[k].val.uniform \in Namespaced(alias, design[k].val.uniform)
          /\ rec[k].val.uniform \in DeclaredUniforms

(***************************************************************************)
(* C2: when a shader imports from one module more than once, then after    *)
(* compile() the runtime registry's resolveOptions yields, for every       *)
(* imported alias whose function has options, a non-null record whose      *)
(* uniform names are the namespaced names the output declares for that     *)
(* alias.                                                                  *)
(***************************************************************************)
C2_EveryAliasResolves ==
    (Compiled /\ ImportedTwice /\ RuntimeHolds) =>
        \A i \in 1..Len(TheImports) :
            HasOptions(TheImports[i]) =>
                Remapped(resolveOptions(runtime_modules, heap, TheImports[i].alias),
                         MapGet(DesignOptions(TheImports[i].module),
                                TheImports[i].name),
                         TheImports[i].alias)

\* every prefix an import, or an import inside an imported module, can add
AliasNames == {"soft", "hard", "effect", "gradient", "ramp", "blend", "grain"}

Prefixes ==
    LET one == {a \o "_" \o r : a \in AliasNames, r \in Rnd6}
    IN one \cup {p \o "_" \o q : p \in one, q \in one}

PrefixedBuiltIns == {p \o "_" \o b : p \in Prefixes, b \in BuiltIns}

RequiredBy(imp) ==
    LET e == extractFrom(imp.module, imp.name,
                         parse(resolve(modules, imp.module).compiled))
    IN {e.dependencies.uniforms[k].ident :
           k \in {j \in 1..Len(e.dependencies.uniforms) :
                     ~MapHas(UNIFORMS, e.dependencies.uniforms[j].name)}}

\* the declared names that belong to an import
NamesOf(imp) ==
    {n \in DeclaredUniforms : \E u \in RequiredBy(imp) : n \in Namespaced(imp.alias, u)}

(***************************************************************************)
(* C4: for every non-built-in uniform required by an import the output     *)
(* holds exactly one declaration, named <alias>_<six base-36 chars>_<name>,*)
(* and no two imports of the shader share a declared uniform name.         *)
(***************************************************************************)
C4_RequiredUniformsDeclaredOnce ==
    Compiled =>
        \A i \in 1..Len(TheImports) :
            /\ \A u \in RequiredBy(TheImports[i]) :
                  /\ \E n \in Namespaced(TheImports[i].alias, u) : Declarations(n) = 1
                  /\ Cardinality(Namespaced(TheImports[i].alias, u)
                                 \cap DeclaredUniforms) = 1
            /\ \A j \in 1..Len(TheImports) :
                  i # j => NamesOf(TheImports[i]) \cap NamesOf(TheImports[j]) = {}

(***************************************************************************)
(* C5: when the imports of a shader all resolve, the text compile()        *)
(* returns holds no #import line, also when an imported module has         *)
(* #import lines of its own.                                               *)
(***************************************************************************)
C5_NoImportLineLeft ==
    Compiled => \A i \in 1..Len(Text) : Text[i].k \notin {"import", "badimport"}

\* the shader imports from a module that itself imports
C5_Witness ==
    /\ Compiled
    /\ \E i \in 1..Len(TheImports) :
          \E j \in 1..Len(resolve(modules, TheImports[i].module).original.source) :
              resolve(modules, TheImports[i].module).original.source[j].k = "import"

(***************************************************************************)
(* C6: a compile() of a compiled shader returns the string of the previous *)
(* compile() and draws no random suffix; a recompile() of a shader with    *)
(* imports runs the pipeline and draws again.                              *)
(***************************************************************************)
C6_CompileIsCached ==
    [][/\ (shader.isCompiled /\ result'.op = "compile") =>
             /\ result'.status = "ok"
             /\ result'.text = shader.compiled.source
             /\ result.status = "ok" => result'.text = result.text
             /\ draws' = draws
             /\ shader' = shader
       /\ (result'.op = "recompile" /\ result'.status = "ok"
             /\ Len(TheImports) > 0) => draws' > draws]_vars

\* a compile() served from the cache: nothing was registered again after
\* the runtime registry had been cleared
C6_Witness ==
    /\ result.op = "compile"
    /\ Compiled
    /\ Len(TheImports) > 0
    /\ runtime_modules = <<>>

(***************************************************************************)
(* Module.extract over a family of modules: three functions f, g, h, each  *)
(* referring to at most MaxRefs of the names below, and the uniforms u_a   *)
(* and u_c declared (u_b is referred to but never declared).               *)
(***************************************************************************)
MaxRefs == 2

FamilyFunctions == {"f", "g", "h"}

FamilyNames == <<"f", "g", "h", "u_a", "u_b">>

RefSets ==
    {S \in SUBSET {FamilyNames[i] : i \in 1..Len(FamilyNames)} :
        Cardinality(S) <= MaxRefs}

\* `return <refs joined by +> 1.0;`, a call being `name()`
FamilyBody(S) ==
    <<"return">>
    \o Flatten([i \in 1..Len(FamilyNames) |->
                  IF FamilyNames[i] \notin S THEN <<>>
                  ELSE IF FamilyNames[i] \in FamilyFunctions
                  THEN <<FamilyNames[i], "(", ")", "+">>
                  ELSE <<FamilyNames[i], "+">>])
    \o <<"1.0", ";">>

FamilySource(sf, sg, sh) ==
    << UniformLine("float", "u_a", 0), UniformLine("float", "u_c", 0),
       FunctionLine("float", "f", FamilyBody(sf)),
       FunctionLine("float", "g", FamilyBody(sg)),
       FunctionLine("float", "h", FamilyBody(sh)),
       Blank >>

\* a registry that holds the one module "m", built without options
InitExtract ==
    /\ \E sf \in RefSets : \E sg \in RefSets : \E sh \in RefSets :
          modules = register(<<>>, "m",
                       Module("m", FamilySource(sf, sg, sh), <<"modules", "m">>,
                              [r \in {<<"modules", "m">>} |-> <<>>]).module)
    /\ runtime_modules = <<>>
    /\ heap = [r \in {<<"modules", "m">>} |-> <<>>]
    /\ shader = Compilable(<<Blank>>)
    /\ result = NoResult
    /\ draws = 0
    /\ clock = Clock
    /\ host = Host
    /\ hooks = Hooks
    /\ parser = Parser(<<Blank>>)

\* modules.resolve("m").extract(name)
Extract ==
    \E name \in FamilyFunctions :
        LET extracted(e) ==
                /\ modules' = e.W.modules
                /\ result' = [op |-> "extract",
                              status |-> IF e.fault = NoFault THEN "ok" ELSE "fault",
                              name |-> name,
                              extraction |-> e.extraction]
        IN /\ extracted(extract("m", name, World(<<>>)))
           /\ UNCHANGED <<runtime_modules, heap, shader, draws, clock, host, hooks, parser>>

NextExtract == Extract

SpecExtract == InitExtract /\ [][NextExtract]_vars

\* the call graph read off the source of the module
FamilyLines == resolve(modules, "m").original.source

BodyIn(name) ==
    FamilyLines[CHOOSE i \in 1..Len(FamilyLines) :
                   FamilyLines[i].k = "function" /\ FamilyLines[i].name = name].body

CallsFrom(name) == {m \in FamilyFunctions : Calls(BodyIn(name), m)}

RECURSIVE Closure(_)
Closure(S) ==
    IF (S \cup UNION {CallsFrom(n) : n \in S}) = S THEN S
    ELSE Closure(S \cup UNION {CallsFrom(n) : n \in S})

Reachable(name) == Closure(CallsFrom(name)) \ {name}

ReferencedUniforms(name) ==
    {FamilyLines[i].name :
        i \in {j \in 1..Len(FamilyLines) :
                 /\ FamilyLines[j].k = "uniform"
                 /\ \E n \in Reachable(name) \cup {name} :
                       \E p \in 1..Len(BodyIn(n)) :
                           BodyIn(n)[p] = FamilyLines[j].name}}

C8_AliasedOptionsRemapped ==
    (Compiled /\ RuntimeHolds) =>
        \A i \in 1..Len(TheImports) :
            (TheImports[i].alias # TheImports[i].name /\ HasOptions(TheImports[i])) =>
                /\ Remapped(resolveOptions(runtime_modules, heap,
                                           TheImports[i].alias),
                            MapGet(DesignOptions(TheImports[i].module),
                                   TheImports[i].name),
                            TheImports[i].alias)
                /\ resolveOptions(runtime_modules, heap, TheImports[i].name) = Null

\* lines of the author's source that declare a required uniform with a
\* type other than the required one
Conflicts ==
    {i \in 1..Len(shader.original.source) :
        /\ shader.original.source[i].k = "uniform"
        /\ MapHas(UNIFORMS, shader.original.source[i].name)
        /\ MapGet(UNIFORMS, shader.original.source[i].name)
              # shader.original.source[i].type}

C10_DesignRegistryUntouched ==
    [][result'.op \in {"compile", "recompile"} =>
          /\ MapKeys(modules') = MapKeys(modules)
          /\ \A n \in ModuleNames :
                heap'[<<"modules", n>>] = heap[<<"modules", n>>]
          /\ \A i \in 1..Len(modules') :
                modules'[i].val.options = <<"modules", modules'[i].key>>
          /\ \A i \in 1..Len(runtime_modules') :
                runtime_modules'[i].val.options
                   = <<"runtime_modules", runtime_modules'[i].key>>]_vars

\* a compile rewrote the options of a runtime copy and the design-time
\* options are those the registry was built with
C10_Witness ==
    /\ Compiled
    /\ \E i \in 1..Len(runtime_modules) :
          /\ heap[runtime_modules[i].val.options]
                # heap[<<"modules", runtime_modules[i].key>>]
          /\ heap[<<"modules", runtime_modules[i].key>>]
                = Loaded.h[<<"modules", runtime_modules[i].key>>]

\* names of the functions in the compiled source of the module an import
\* names
ModuleFunctionNames(imp) ==
    {f.name : f \in {parse(resolve(modules, imp.module).compiled).functions[k] :
                 k \in 1..Len(parse(resolve(modules, imp.module).compiled).functions)}}

\* positions in the output of the helper functions an import contributed
HelpersAt(imp) ==
    {p \in SplicedAt :
        \E n \in ModuleFunctionNames(imp) : Text[p].name \in Namespaced(imp.alias, n)}

\* position in the output of the renamed main function of an import
MainAt(imp) == {p \in SplicedAt : Text[p].name = imp.alias}

(***************************************************************************)
(* C11: in the output of a compile() the spliced-in functions stand in     *)
(* import order: the helper functions of an import before its renamed main *)
(* function, and all functions of an earlier import before all functions   *)
(* of a later import.                                                      *)
(***************************************************************************)
C11_SplicedInImportOrder ==
    Compiled =>
        \A i \in 1..Len(TheImports) :
            /\ \A p \in HelpersAt(TheImports[i]) : \A q \in MainAt(TheImports[i]) :
                  p < q
            /\ \A j \in (i + 1)..Len(TheImports) :
                  \A p \in HelpersAt(TheImports[i]) \cup MainAt(TheImports[i]) :
                     \A q \in HelpersAt(TheImports[j]) \cup MainAt(TheImports[j]) :
                        p < q

(***************************************************************************)
(* C12: whenever compile() has returned a text for a shader with imports,  *)
(* the runtime registry holds a copy of every module an import names, also *)
(* when the registry was cleared after the shader or one of its modules    *)
(* had been compiled.                                                      *)
(***************************************************************************)
C12_RuntimeRepopulated ==
    (AfterCompile /\ Compiled /\ Len(TheImports) > 0) =>
        \A i \in 1..Len(TheImports) :
            /\ has(runtime_modules, TheImports[i].module)
            /\ resolve(runtime_modules, TheImports[i].module).name
                  = TheImports[i].module

(***************************************************************************)
(* C13: when compile() raises a fault the Compilable stays uncompiled and  *)
(* the runtime registry, the options of its modules and the stored         *)
(* compiled source are what they were before the call.                     *)
(***************************************************************************)
C13_FaultKeepsState ==
    [][(result'.op \in {"compile", "recompile"} /\ result'.status = "fault") =>
          /\ ~shader'.isCompiled
          /\ shader'.compiled.source = shader.compiled.source
          /\ runtime_modules' = runtime_modules
          /\ \A r \in Refs : r[1] = "runtime_modules" => heap'[r] = heap[r]]_vars

\* the faults an import can raise
ImportFault(imp) ==
    IF ~has(modules, imp.module) THEN "ModuleNotFound"
    ELSE IF imp.name = "main" THEN "AttemptedToImportMain"
    ELSE IF imp.name = "default" THEN "AttemptedToImportDefault"
    ELSE IF imp.name \notin ModuleFunctionNames(imp) THEN "ModuleMethodNotFound"
    ELSE "none"

FailingImports == {i \in 1..Len(TheImports) : ImportFault(TheImports[i]) # "none"}

(***************************************************************************)
(* C14: compile() raises a fault and returns no text when an import names  *)
(* a module the design-time registry does not hold (module not found), a   *)
(* function the compiled source of the module does not have (method not    *)
(* found), or main or default; the fault is that of the first such import. *)
(***************************************************************************)
C14_ImportFaults ==
    (AfterCompile /\ FailingImports # {}) =>
        /\ result.status = "fault"
        /\ ~shader.isCompiled
        /\ \E i \in FailingImports :
              /\ \A j \in FailingImports : i <= j
              /\ result.fault.kind = ImportFault(TheImports[i])
              /\ result.fault.moduleName = TheImports[i].module
              /\ ImportFault(TheImports[i]) = "ModuleMethodNotFound"
                    => result.fault.methodName = TheImports[i].name

C14_Witness ==
    /\ AfterCompile
    /\ result.status = "fault"
    /\ result.fault.kind = "ModuleMethodNotFound"
    /\ FailingImports = {2}

(***************************************************************************)
(* Module.define over the design-time registry.  A name is compared by the *)
(* characters it is made of.                                               *)
(***************************************************************************)
Chars(name) ==
    CASE name = "sandbox" -> <<"s", "a", "n", "d", "b", "o", "x">>
      [] name = "sandbox/" -> <<"s", "a", "n", "d", "b", "o", "x", "/">>
      [] name = "sandbox/colors" ->
            <<"s", "a", "n", "d", "b", "o", "x", "/", "c", "o", "l", "o", "r", "s">>
      [] name = "sandboxed" -> <<"s", "a", "n", "d", "b", "o", "x", "e", "d">>
      [] name = "tone" -> <<"t", "o", "n", "e">>

\* String.prototype.startsWith
startsWith(name, prefix) ==
    /\ Len(Chars(prefix)) <= Len(Chars(name))
    /\ SubSeq(Chars(name), 1, Len(Chars(prefix))) = Chars(prefix)

SandboxForbiddenModuleNameError(name) ==
    [code |-> "MODULE_ERROR", kind |-> "ForbiddenModuleName", moduleName |-> name]

SandboxOverwriteModuleError(name) ==
    [code |-> "MODULE_ERROR", kind |-> "OverwriteModule", moduleName |-> name]

\* a define() that registers without asking whether the name is taken
define_overwriting(definition, registry, h) ==
    LET name == definition.name
        ref == <<"modules", name>>
        made(m) ==
            IF m.fault # NoFault
            THEN [fault |-> m.fault, registry |-> registry, h |-> h]
            ELSE [fault |-> NoFault,
                  registry |-> register(registry, name, m.module), h |-> m.h]
    IN IF name = "sandbox" \/ startsWith(name, "sandbox/")
       THEN [fault |-> SandboxForbiddenModuleNameError(name),
             registry |-> registry, h |-> h]
       ELSE made(Module(name, definition.source, ref,
                        [h EXCEPT ![ref] = definition.options]))

\* Module.define: the Module is constructed before the registry is asked;
\* the objects of a rejected call are dropped
define(definition, registry, h) ==
    LET name == definition.name
        ref == <<"modules", name>>
        made(m) ==
            IF m.fault # NoFault
            THEN [fault |-> m.fault, registry |-> registry, h |-> h]
            ELSE IF has(registry, name)
            THEN [fault |-> SandboxOverwriteModuleError(name),
                  registry |-> registry, h |-> h]
            ELSE [fault |-> NoFault,
                  registry |-> register(registry, name, m.module), h |-> m.h]
    IN IF name = "sandbox" \/ startsWith(name, "sandbox/")
       THEN [fault |-> SandboxForbiddenModuleNameError(name),
             registry |-> registry, h |-> h]
       ELSE made(Module(name, definition.source, ref,
                        [h EXCEPT ![ref] = definition.options]))

\* the modules bundled with the library
BundledDefinitions ==
    << [name |-> "sandbox", source |-> FxSource, options |-> <<>>],
       [name |-> "sandbox/colors", source |-> CascadeSource,
        options |-> CascadeOptions] >>

DefineNames == {"sandbox", "sandbox/colors", "sandboxed", "tone"}

DefineSources ==
    { << UniformLine("float", "u_tone", 0),
         FunctionLine("vec3", "tint", <<"return", "u_tone", ";">>), Blank >>,
      << FunctionLine("vec3", "glow", <<"return", "tint", "(", ")", ";">>),
         FunctionLine("vec3", "tint", <<"return", "u_time", ";">>), Blank >>,
      \* a source that does not parse
      << BadImportLine, FunctionLine("vec3", "tint", <<"return", ";">>), Blank >> }

DefineOptions ==
    { <<>>, << [key |-> "default", val |-> <<Option("tone", "u_tone", 2)>>] >> }

RefsDefine == {<<"modules", n>> : n \in DefineNames}

InitDefine ==
    LET bundled == loadDefinitions(BundledDefinitions, 1,
                     [registry |-> <<>>, h |-> [r \in RefsDefine |-> Null]])
    IN /\ modules = bundled.registry
       /\ heap = bundled.h
       /\ runtime_modules = <<>>
       /\ shader = Compilable(<<Blank>>)
       /\ result = NoResult
       /\ draws = 0
       /\ clock = Clock
       /\ host = Host
       /\ hooks = Hooks
       /\ parser = Parser(<<Blank>>)

\* Module.define({ name, source, options })
Define ==
    \E name \in DefineNames : \E source \in DefineSources : \E options \in DefineOptions :
        LET defined(r) ==
                /\ modules' = r.registry
                /\ heap' = r.h
                /\ result' = IF r.fault = NoFault
                             THEN [op |-> "define", status |-> "ok", name |-> name]
                             ELSE [op |-> "define", status |-> "fault", name |-> name,
                                   fault |-> r.fault]
        IN /\ defined(define([name |-> name, source |-> source, options |-> options],
                             modules, heap))
           /\ UNCHANGED <<runtime_modules, shader, draws, clock, host, hooks, parser>>

\* modules.remove(name); the options of the module become unreachable
Remove ==
    \E name \in DefineNames :
        /\ has(modules, name)
        /\ modules' = remove(modules, name)
        /\ heap' = [heap EXCEPT ![<<"modules", name>>] = Null]
        /\ result' = [op |-> "remove", status |-> "none", name |-> name]
        /\ UNCHANGED <<runtime_modules, shader, draws, clock, host, hooks, parser>>

NextDefine == Define \/ Remove

SpecDefine == InitDefine /\ [][NextDefine]_vars

\* the names of DefineNames that are sandbox or begin with sandbox/
ForbiddenNames == {"sandbox", "sandbox/colors"}

(***************************************************************************)
(* C15: Module.define rejects the name sandbox, a name that begins with    *)
(* sandbox/ and a name the design-time registry already holds; a rejected  *)
(* call leaves the registry as it was, so resolve returns the module it    *)
(* returned before.                                                        *)
(***************************************************************************)
C15_DefineRejects ==
    [][(result'.op = "define"
          /\ (result'.name \in ForbiddenNames \/ has(modules, result'.name))) =>
          /\ result'.status = "fault"
          /\ result'.name \in ForbiddenNames
                => result'.fault.kind = "ForbiddenModuleName"
          /\ modules' = modules
          /\ heap' = heap
          /\ \A n \in DefineNames :
                has(modules, n) =>
                   /\ has(modules', n)
                   /\ resolve(modules', n) = resolve(modules, n)]_vars

C15_Witness ==
    /\ result.op = "define"
    /\ result.status = "fault"
    /\ result.fault.kind = "OverwriteModule"
    /\ result.name = "tone"
    /\ has(modules, "tone")

(***************************************************************************)
(* The Clock under its operations and the frames of the host.  result      *)
(* holds the last operation with its argument, the snapshots its callback  *)
(* was handed, and                                                         *)
(* what an observer of the calls noted: mark is "stopped" after a stop()   *)
(* that took effect and "set" after setTime on a stopped clock, held being *)
(* the time the clock holds since; a start() that takes effect turns them  *)
(* into "resumed" and "played" with origin the wall time of that start().  *)
(* After reset() mark is "reset", and while only tick(dt) follows, held    *)
(* is the sum of the dt and origin the number of the calls.  Wall time     *)
(* passing, a tick that renders nothing, setMaxFps and calls without       *)
(* effect keep the note; every other operation drops it.                   *)
(***************************************************************************)
MaxNow == 40

MaxFrame == 2

WallSteps == {10}

TickSteps == {0, 16}

SetTimes == {25}

FpsLimits == {0, 60}

K == [clock |-> clock, host |-> host, calls |-> <<>>]

NoNote == [mark |-> "none", held |-> 0, origin |-> 0]

Note == [mark |-> result.mark, held |-> result.held, origin |-> result.origin]

Done(op, arg, r, note) ==
    /\ clock' = r.clock
    /\ host' = r.host
    /\ result' = [op |-> op, arg |-> arg, calls |-> r.calls, mark |-> note.mark,
                  held |-> note.held, origin |-> note.origin]
    /\ UNCHANGED <<modules, runtime_modules, heap, shader, draws, hooks, parser>>

InitClock ==
    /\ modules = Loaded.registry
    /\ runtime_modules = <<>>
    /\ heap = Loaded.h
    /\ shader = Compilable(<<Blank>>)
    /\ draws = 0
    /\ clock = Clock
    /\ host = Host
    /\ hooks = Hooks
    /\ parser = Parser(<<Blank>>)
    /\ result = [op |-> "none", arg |-> "none", calls |-> <<>>, mark |-> "none",
                 held |-> 0, origin |-> 0]

Start ==
    /\ host.batch = <<>>
    /\ \E callback \in Callbacks :
          Done("start", callback, start(K, callback),
               IF clock.running THEN Note
               ELSE IF result.mark = "stopped"
               THEN [Note EXCEPT !.mark = "resumed", !.origin = host.now]
               ELSE IF result.mark = "set"
               THEN [Note EXCEPT !.mark = "played", !.origin = host.now]
               ELSE NoNote)

Stop ==
    /\ host.batch = <<>>
    /\ Done("stop", "none", stop(K),
            IF clock.running
            THEN [mark |-> "stopped", held |-> clock.time, origin |-> 0]
            ELSE Note)

Reset ==
    /\ host.batch = <<>>
    /\ Done("reset", "none", reset(K), [mark |-> "reset", held |-> 0, origin |-> 0])

Tick ==
    /\ host.batch = <<>>
    /\ clock.frame < MaxFrame
    /\ \E dt \in TickSteps :
          Done("tick", dt, tick(K, dt),
               IF result.mark = "reset"
               THEN [Note EXCEPT !.held = @ + dt, !.origin = @ + 1]
               ELSE NoNote)

SetTime ==
    /\ host.batch = <<>>
    /\ \E time \in SetTimes :
          Done("setTime", time, setTime(K, time),
               IF clock.running THEN NoNote
               ELSE [mark |-> "set", held |-> time, origin |-> 0])

SetMaxFps ==
    /\ host.batch = <<>>
    /\ \E fps \in FpsLimits : Done("setMaxFps", fps, setMaxFps(K, fps), Note)

\* wall time passes
Advance ==
    /\ host.batch = <<>>
    /\ \E d \in WallSteps :
          /\ host.now + d <= MaxNow
          /\ host' = [host EXCEPT !.now = @ + d]
          /\ UNCHANGED <<modules, runtime_modules, heap, shader, draws, clock, result, hooks,
                      parser>>

\* wall time passes and the host begins a frame: the callbacks requested so
\* far are due, with the time of the frame as their timestamp
BeginFrame ==
    /\ host.batch = <<>>
    /\ host.pending # <<>>
    /\ \E d \in WallSteps :
          /\ host.now + d <= MaxNow
          /\ host' = [now |-> host.now + d, pending |-> <<>>, batch |-> host.pending]
          /\ UNCHANGED <<modules, runtime_modules, heap, shader, draws, clock, result, hooks,
                      parser>>

\* the host runs the next callback of the frame, loop(timestamp)
Loop ==
    /\ host.batch # <<>>
    /\ LET ran(r) ==
               Done("loop", host.now, r,
                    IF r.calls = <<>> THEN Note
                    ELSE IF ~r.clock.running
                    THEN [mark |-> "stopped", held |-> r.clock.time, origin |-> 0]
                    ELSE NoNote)
       IN ran(loop([K EXCEPT !.host.batch = Tail(@)], host.now))

NextClock ==
    \/ Start \/ Stop \/ Reset \/ Tick \/ SetTime \/ SetMaxFps
    \/ Advance \/ BeginFrame \/ Loop

SpecClock == InitClock /\ [][NextClock]_vars

\* a step in which the host runs a callback of the frame
LoopStep == host.batch # <<>> /\ result'.op = "loop"

\* a step in which the named operation of the clock is called
CallStep(op) ==
    /\ host.batch = <<>>
    /\ host'.batch = <<>>
    /\ host'.now = host.now
    /\ result'.op = op

(***************************************************************************)
(* C16: for start, wall time passing, stop, wall time passing, start, the  *)
(* next tick that renders reports the time the clock held at stop plus the *)
(* delta of that tick, which is the wall time since the second start: the  *)
(* paused interval is not counted.                                         *)
(***************************************************************************)
C16_ResumeKeepsTime ==
    [][(LoopStep /\ result.mark = "resumed" /\ result'.calls # <<>>) =>
          /\ result'.calls[1].delta = host.now - result.origin
          /\ result'.calls[1].time = result.held + result'.calls[1].delta]_vars

(***************************************************************************)
(* C17: after setTime(t) on a stopped clock and start(cb), the first frame *)
(* handed to cb reports time = t plus the wall time since that start,      *)
(* whatever the frame count was, 0 included.                               *)
(***************************************************************************)
C17_PlayFromSetTime ==
    [][(LoopStep /\ result.mark = "played" /\ result'.calls # <<>>) =>
          result'.calls[1].time = result.held + (host.now - result.origin)]_vars

(***************************************************************************)
(* C18: stop() leaves time, delta and frame as they were, and a scheduled  *)
(* tick that fires on a stopped clock invokes no callback and changes      *)
(* nothing.                                                                *)
(***************************************************************************)
C18_StopFreezes ==
    [][/\ CallStep("stop") =>
             /\ clock'.time = clock.time
             /\ clock'.delta = clock.delta
             /\ clock'.frame = clock.frame
             /\ ~clock'.running
       /\ (LoopStep /\ ~clock.running) =>
             /\ result'.calls = <<>>
             /\ clock' = clock
             /\ host'.pending = host.pending]_vars

C18_Witness ==
    /\ result.op = "loop"
    /\ result.calls = <<>>
    /\ ~clock.running
    /\ clock.frame > 0
    /\ host.pending = <<>>

(***************************************************************************)
(* C19: start(cb) on a running clock schedules no second tick and leaves   *)
(* time, delta, frame, the wall-clock origin and the stored callback as    *)
(* they were.                                                              *)
(***************************************************************************)
C19_StartIdempotent ==
    [][(CallStep("start") /\ clock.running) => (clock' = clock /\ host' = host)]_vars

C19_Witness ==
    /\ result.op = "start"
    /\ clock.running
    /\ clock.callback # result.arg
    /\ Len(host.pending) = 1

(***************************************************************************)
(* C20: with maxFps = n > 0 a scheduled tick that arrives less than 1000/n *)
(* ms after lastTime (the last rendered frame, or the start if that is     *)
(* later) invokes no callback and leaves time, delta and frame unchanged;  *)
(* with n = 0 every tick that reaches a running clock renders.             *)
(***************************************************************************)
C20_MaxFpsSkips ==
    [][(LoopStep /\ clock.running) =>
          /\ (clock.maxFps > 0 /\ (host.now - clock.lastTime) * clock.maxFps < 1000) =>
                /\ result'.calls = <<>>
                /\ clock'.time = clock.time
                /\ clock'.delta = clock.delta
                /\ clock'.frame = clock.frame
          /\ clock.maxFps = 0 =>
                /\ Len(result'.calls) = 1
                /\ clock'.frame = clock.frame + 1]_vars

C20_Witness ==
    /\ result.op = "loop"
    /\ result.calls = <<>>
    /\ clock.running
    /\ clock.maxFps > 0
    /\ clock.lastTime < host.now

(***************************************************************************)
(* C21: tick(dt) adds dt to time, adds 1 to frame, makes delta dt and      *)
(* hands the stored callback, if there is one, one snapshot of that state, *)
(* which a change of the clock made by the callback does not alter; after  *)
(* reset() and n calls of tick, frame is n and time the sum of the dt.     *)
(***************************************************************************)
C21_TickIsOneStep ==
    [][CallStep("tick") =>
          /\ clock'.time = clock.time + result'.arg
          /\ clock'.frame = clock.frame + 1
          /\ clock'.delta = result'.arg
          /\ result'.calls =
                IF clock.callback = NoCallback THEN <<>>
                ELSE << [time |-> clock.time + result'.arg, delta |-> result'.arg,
                         frame |-> clock.frame + 1, running |-> clock.running] >>
          /\ result'.mark = "reset" =>
                (clock'.frame = result'.origin /\ clock'.time = result'.held)]_vars

C21_Witness ==
    /\ result.op = "tick"
    /\ result.mark = "reset"
    /\ result.origin = 2
    /\ result.held = 16
    /\ Len(result.calls) = 1

(***************************************************************************)
(* Hooks under add, the removal functions, run and destroy.  result holds  *)
(* the last operation and, for run, the ids of the callbacks invoked in    *)
(* the order of the calls.                                                 *)
(***************************************************************************)
MaxHooks == 3

HookTimes == {1, 6}

InitHooks ==
    /\ modules = Loaded.registry
    /\ runtime_modules = <<>>
    /\ heap = Loaded.h
    /\ shader = Compilable(<<Blank>>)
    /\ draws = 0
    /\ clock = Clock
    /\ host = Host
    /\ hooks = Hooks
    /\ parser = Parser(<<Blank>>)
    /\ result = [op |-> "none"]

HooksOnly ==
    UNCHANGED <<modules, runtime_modules, heap, shader, draws, clock, host, parser>>

Add ==
    /\ hooks.ids < MaxHooks
    /\ \E fn \in HookFns :
          /\ hooks' = add(hooks, fn)
          /\ result' = [op |-> "add", id |-> hooks.ids + 1]
    /\ HooksOnly

\* a removal function is called, whether its callback is registered or not
RemoveHook ==
    /\ \E id \in 1..hooks.ids :
          /\ hooks' = removeHook(hooks, id)
          /\ result' = [op |-> "remove", id |-> id]
    /\ HooksOnly

Run ==
    /\ \E time \in HookTimes :
          LET ran(r) ==
                  /\ hooks' = r.hooks
                  /\ result' =
                        [op |-> "run", time |-> time, calls |-> r.calls,
                         status |-> IF r.fault = NoFault THEN "ok" ELSE "fault",
                         fault |-> r.fault]
          IN ran(run(hooks, [time |-> time]))
    /\ HooksOnly

DestroyHooks ==
    /\ hooks' = destroy(hooks)
    /\ result' = [op |-> "destroy"]
    /\ HooksOnly

NextHooks == Add \/ RemoveHook \/ Run \/ DestroyHooks

SpecHooks == InitHooks /\ [][NextHooks]_vars

\* the ids registered in a collection, and the callback registered under one
Registered(h) == {h.list[i].id : i \in 1..Len(h.list)}

FnOf(h, id) == (CHOOSE e \in {h.list[i] : i \in 1..Len(h.list)} : e.id = id).fn

Invoked(r) == {r.calls[i] : i \in 1..Len(r.calls)}

\* what the callbacks do, told apart from the operators of the model
SaysFalse(fn, time) == fn = "false" \/ (fn = "late" /\ time > 5)

Throws(fn) == fn = "throw"

\* the callbacks a run reaches: those with no thrower added before them
Reached(h) ==
    {id \in Registered(h) :
        \A other \in Registered(h) : other < id => ~Throws(FnOf(h, other))}

(***************************************************************************)
(* C22: a callback that returns false during run() is registered no longer *)
(* after it and no later run() invokes it, a callback once gone never      *)
(* coming back; a callback that returns anything else, 0 and undefined     *)
(* included, stays registered and the next run() invokes it again.         *)
(***************************************************************************)
C22_FalseRemovesHook ==
    [][/\ result'.op = "run" =>
             /\ \A id \in Invoked(result') :
                   IF SaysFalse(FnOf(hooks, id), result'.time)
                   THEN id \notin Registered(hooks')
                   ELSE id \in Registered(hooks')
             /\ Invoked(result') \subseteq Registered(hooks)
             /\ result.op = "run" =>
                   \A id \in Invoked(result) :
                      id \in Registered(hooks) => id \in Invoked(result')
       /\ Registered(hooks') \subseteq Registered(hooks) \cup {hooks.ids + 1}
       /\ hooks'.ids >= hooks.ids]_vars

C22_Witness ==
    /\ result.op = "run"
    /\ result.status = "ok"
    /\ Len(result.calls) = 2
    /\ Len(hooks.list) = 1
    /\ hooks.list[1].fn = "zero"
    /\ hooks.list[1].id \in Invoked(result)

(***************************************************************************)
(* C23: when a callback throws during run(), run() raises one hook error   *)
(* that names the callback, the callbacks added after it are not invoked   *)
(* in that run, and the collection is left as the callbacks before it left *)
(* it: the thrower and the callbacks after it stay registered, and the     *)
(* next run() invokes the registered callbacks again.                      *)
(***************************************************************************)
C23_ThrowStopsRun ==
    [][result'.op = "run" =>
          /\ result'.status = "fault" <=> (\E id \in Registered(hooks) : Throws(FnOf(hooks, id)))
          /\ result'.status = "fault" =>
                /\ result'.fault.kind = "OnHookCallback"
                /\ Throws(FnOf(hooks, result'.fault.id))
                /\ result'.fault.id \in Reached(hooks)
                /\ \A id \in Registered(hooks) :
                      /\ id > result'.fault.id => id \notin Invoked(result')
                      /\ id >= result'.fault.id => id \in Registered(hooks')
          /\ (result.op = "run" /\ result.status = "fault") =>
                Invoked(result') = Reached(hooks)]_vars

C23_Witness ==
    /\ result.op = "run"
    /\ result.status = "fault"
    /\ Len(result.calls) = 2
    /\ Len(hooks.list) = 3
    /\ result.fault.id = hooks.list[2].id

(***************************************************************************)
(* C24: run(state) invokes every registered callback once, in the order    *)
(* the callbacks were added, up to a callback that throws; a callback      *)
(* whose removal function has been called, and every callback after        *)
(* destroy(), is not registered and not invoked.                           *)
(***************************************************************************)
C24_RunInOrder ==
    [][/\ result'.op = "run" =>
             /\ Invoked(result') = Reached(hooks)
             /\ Len(result'.calls) = Cardinality(Reached(hooks))
             /\ \A i \in 1..Len(result'.calls) : \A j \in 1..Len(result'.calls) :
                   i < j => result'.calls[i] < result'.calls[j]
       /\ result'.op = "remove" =>
             Registered(hooks') = Registered(hooks) \ {result'.id}
       /\ result'.op = "destroy" => Registered(hooks') = {}
       /\ result'.op = "add" =>
             Registered(hooks') = Registered(hooks) \cup {result'.id}]_vars

C24_Witness ==
    /\ result.op = "run"
    /\ result.status = "ok"
    /\ result.calls = <<1, 3>>
    /\ hooks.ids = 3

(***************************************************************************)
(* The Parser and the objects parse() returns.  An object is known by its  *)
(* reference: parser.parsed holds null or the reference of the memo, and   *)
(* heap holds what each object made so far contains.                       *)
(***************************************************************************)
MaxObjects == 4

Object(n) == [k |-> "object", n |-> n]

Objects == {Object(n) : n \in 1..MaxObjects}

Made(h) == {o \in Objects : h[o] # Null}

\* parse() that never looks at the memo
parseObject_fresh(p, h) ==
    LET object == Object(Cardinality(Made(h)) + 1)
        made(content) ==
            IF content.fault # NoFault
            THEN [fault |-> content.fault, value |-> Null, parser |-> p, h |-> h]
            ELSE [fault |-> NoFault, value |-> object,
                  parser |-> [p EXCEPT !.parsed = object],
                  h |-> [h EXCEPT ![object] = content]]
    IN made(ParseSource(p.source))

\* parse(): the memo if there is one, else a new object that becomes the memo
parseObject(p, h) ==
    LET object == Object(Cardinality(Made(h)) + 1)
        made(content) ==
            IF content.fault # NoFault
            THEN [fault |-> content.fault, value |-> Null, parser |-> p, h |-> h]
            ELSE [fault |-> NoFault, value |-> object,
                  parser |-> [p EXCEPT !.parsed = object],
                  h |-> [h EXCEPT ![object] = content]]
    IN IF p.parsed # Null
       THEN [fault |-> NoFault, value |-> p.parsed, parser |-> p, h |-> h]
       ELSE made(ParseSource(p.source))

isParsed(p) == p.parsed # Null

ParserSources ==
    { << UniformLine("float", "u_time", 0), Main(<<"u_time", ";">>), Blank >>,
      << UniformLine("vec2", "u_resolution", 0), Main(<<";">>), Blank >>,
      << BadImportLine, Main(<<";">>), Blank >> }

ParserOnly ==
    UNCHANGED <<modules, runtime_modules, shader, draws, clock, host, hooks>>

InitParser ==
    /\ modules = Loaded.registry
    /\ runtime_modules = <<>>
    /\ heap = [o \in Objects |-> Null]
    /\ shader = Compilable(<<Blank>>)
    /\ draws = 0
    /\ clock = Clock
    /\ host = Host
    /\ hooks = Hooks
    /\ parser \in {Parser(source) : source \in ParserSources}
    /\ result = [op |-> "new"]

Parse ==
    /\ isParsed(parser) \/ Cardinality(Made(heap)) < MaxObjects
    /\ LET returns(r) ==
               /\ parser' = r.parser
               /\ heap' = r.h
               /\ result' = IF r.fault = NoFault
                            THEN [op |-> "parse", status |-> "ok", value |-> r.value]
                            ELSE [op |-> "parse", status |-> "fault", fault |-> r.fault]
       IN returns(parseObject(parser, heap))
    /\ ParserOnly

SetSource ==
    /\ \E newSource \in ParserSources :
          /\ parser' = setSource(parser, newSource)
          /\ result' = [op |-> "setSource"]
    /\ UNCHANGED heap
    /\ ParserOnly

NextParser == Parse \/ SetSource

SpecParser == InitParser /\ [][NextParser]_vars

(***************************************************************************)
(* C25: a parse() that follows a parse() returns the same object, its      *)
(* content untouched; the parse() that follows setSource(text) returns an  *)
(* object made by that call, whose content is computed from text.          *)
(***************************************************************************)
C25_ParseIsMemoised ==
    [][(result'.op = "parse" /\ result'.status = "ok") =>
          /\ (result.op = "parse" /\ result.status = "ok") =>
                /\ result'.value = result.value
                /\ heap'[result'.value] = heap[result.value]
          /\ result.op = "setSource" =>
                /\ result'.value \notin Made(heap)
                /\ heap'[result'.value].uniforms = detectUniforms(parser.source)
                /\ heap'[result'.value].functions
                      = detectFunctions(parser.source, detectUniforms(parser.source))
                /\ \A o \in Made(heap) : heap'[o] = heap[o]]_vars

C25_Witness ==
    /\ result.op = "parse"
    /\ result.status = "ok"
    /\ result.value = Object(2)
    /\ heap[Object(2)].uniforms # heap[Object(1)].uniforms

(***************************************************************************)
(* C26: at any moment at most one tick of the clock is scheduled with the  *)
(* host, counting the ticks waiting for the next frame and the ticks of    *)
(* the frame being delivered.                                              *)
(***************************************************************************)
Scheduled == Len(host.pending) + Len(host.batch)

C26_OneTickScheduled == Scheduled <= 1

(***************************************************************************)
(* C27: recompile() of a compiled shader produces a text with as many      *)
(* function definitions and as many uniform declarations as the text the   *)
(* shader held before; by induction, as many as its first compile().       *)
(***************************************************************************)
LinesOf(text, kind) == Cardinality({i \in 1..Len(text) : text[i].k = kind})

C27_RecompileDoesNotAccumulate ==
    [][(/\ shader.isCompiled
        /\ result'.op = "recompile"
        /\ result'.status = "ok") =>
          /\ LinesOf(result'.text, "function")
                = LinesOf(shader.compiled.source, "function")
          /\ LinesOf(result'.text, "uniform")
                = LinesOf(shader.compiled.source, "uniform")]_vars

(***************************************************************************)
(* C28: in the compiled text every spliced-in function comes after the     *)
(* version line, the precision line and every uniform declaration, and     *)
(* before every function written by the author.                            *)
(***************************************************************************)
HeaderAt == {i \in 1..Len(Text) : Text[i].k \in {"version", "precision", "uniform"}}

AuthoredAt ==
    {i \in 1..Len(Text) : /\ Text[i].k = "function"
                          /\ Text[i].name \in AuthoredFunctions}

C28_SplicedBetweenUniformsAndCode ==
    Compiled =>
        \A i \in SplicedAt : /\ \A j \in HeaderAt : j < i
                             /\ \A j \in AuthoredAt : i < j

(***************************************************************************)
(* Rewriting character by character.  A body is a text; the references     *)
(* the parser records hold the offset, counted from 0, at which a name     *)
(* starts in it.  The bodies are `{` lexeme `+` lexeme ... `}`, a lexeme   *)
(* being an identifier or a call `name()`.                                 *)
(***************************************************************************)
MaxLexemes == 3

Identifier(name) == [text |-> name, call |-> FALSE]

Call(name) == [text |-> name, call |-> TRUE]

Lexemes ==
    {Identifier("u_a"), Identifier("u_b"), Identifier("u_time"), Identifier("x"),
     Call("noise"), Call("sin")}

Written(lexeme) == IF lexeme.call THEN lexeme.text \o "()" ELSE lexeme.text

RECURSIVE Joined(_)
Joined(lexemes) ==
    IF lexemes = <<>> THEN ""
    ELSE IF Len(lexemes) = 1 THEN Written(Head(lexemes))
    ELSE Written(Head(lexemes)) \o "+" \o Joined(Tail(lexemes))

BodyText(lexemes) == "{" \o Joined(lexemes) \o "}"

\* match.index of the i-th lexeme
OffsetOf(lexemes, i) == Len("{" \o Joined(SubSeq(lexemes, 1, i - 1)))
                        + (IF i > 1 THEN 1 ELSE 0)

\* findFunctionCalls on the text of the lexemes
findFunctionCallsIn(lexemes) ==
    LET idx == Ascending({i \in 1..Len(lexemes) :
                            /\ lexemes[i].call
                            /\ lexemes[i].text \notin Keywords})
    IN [j \in 1..Len(idx) |->
          [name |-> lexemes[idx[j]].text, type |-> "function",
           index |-> OffsetOf(lexemes, idx[j])]]

\* findUniformCalls on the text of the lexemes
findUniformCallsIn(lexemes, uniforms) ==
    Flatten([u \in 1..Len(uniforms) |->
        LET idx == Ascending({i \in 1..Len(lexemes) :
                                lexemes[i].text = uniforms[u].name})
        IN [j \in 1..Len(idx) |->
              [name |-> uniforms[u].name, type |-> "uniform",
               index |-> OffsetOf(lexemes, idx[j])]]])

\* String.prototype.slice(0, end) and slice(from)
sliceTo(text, end) == SubSeq(text, 1, end)

sliceFrom(text, from) == SubSeq(text, from + 1, Len(text))

RECURSIVE spliceSorted(_, _)
spliceSorted(text, sorted) ==
    IF sorted = <<>> THEN text
    ELSE spliceSorted(sliceTo(text, Head(sorted).index)
                        \o Head(sorted).newText
                        \o sliceFrom(text, Head(sorted).index
                                           + Len(Head(sorted).oldText)),
                      Tail(sorted))

\* applyRewrites on a text
applyRewritesIn(text, ops) == spliceSorted(text, SortDesc(ops))

\* the body rewriteFunction returns for a function with this body text
rewriteBody(body, dependencies, prefix, data) ==
    LET uniformNames == {data.uniforms[i].name : i \in 1..Len(data.uniforms)}
        helperNames == {data.functions[i].name : i \in 1..Len(data.functions)}
        idx == Ascending({i \in 1..Len(dependencies) :
                            pushesOp(dependencies[i], uniformNames, helperNames)})
        ops == [j \in 1..Len(idx) |->
                  [index |-> dependencies[idx[j]].index,
                   oldText |-> dependencies[idx[j]].name,
                   newText |-> prefix \o "_" \o dependencies[idx[j]].name]]
    IN applyRewritesIn(body, ops)

Declared(name) == [name |-> name, type |-> "float"]

\* the uniform declarations of the module, in the order it writes them; the
\* last list declares u_a in both branches of an #ifdef
ModuleUniforms ==
    { <<Declared("u_a"), Declared("u_b"), Declared("u_time")>>,
      <<Declared("u_time"), Declared("u_b"), Declared("u_a")>>,
      <<Declared("u_a"), Declared("u_a"), Declared("u_b")>> }

ModuleHelpers == <<[name |-> "noise"]>>

Bodies == UNION {[1..n -> Lexemes] : n \in 1..MaxLexemes}

InitRewrite ==
    /\ modules = Loaded.registry
    /\ runtime_modules = <<>>
    /\ heap = Loaded.h
    /\ shader = Compilable(<<Blank>>)
    /\ draws = 0
    /\ clock = Clock
    /\ host = Host
    /\ hooks = Hooks
    /\ parser = Parser(<<Blank>>)
    /\ \E lexemes \in Bodies : \E uniforms \in ModuleUniforms :
          result = [op |-> "new", lexemes |-> lexemes, uniforms |-> uniforms]

Rewrite ==
    /\ result.op = "new"
    /\ \E rnd \in Rnd6 :
          LET prefix == "blend_" \o rnd
              dependencies == findFunctionCallsIn(result.lexemes)
                              \o findUniformCallsIn(result.lexemes, result.uniforms)
          IN result' = [op |-> "rewrite", lexemes |-> result.lexemes,
                        uniforms |-> result.uniforms, prefix |-> prefix,
                        dependencies |-> dependencies,
                        body |-> rewriteBody(BodyText(result.lexemes), dependencies,
                                             prefix,
                                             [uniforms |-> result.uniforms,
                                              functions |-> ModuleHelpers])]
    /\ UNCHANGED <<modules, runtime_modules, heap, shader, draws, clock, host, hooks,
                   parser>>

NextRewrite == Rewrite

SpecRewrite == InitRewrite /\ [][NextRewrite]_vars

(***************************************************************************)
(* C29: the rewritten body is the body with each reference to a module     *)
(* uniform that is not a built-in, and each call of a helper, written      *)
(* `<prefix>_<name>`, and every other character as it was.                 *)
(***************************************************************************)
Prefixed(lexeme, prefix, uniforms) ==
    IF \/ /\ lexeme.text \in {uniforms[i].name : i \in 1..Len(uniforms)}
          /\ ~MapHas(UNIFORMS, lexeme.text)
       \/ /\ lexeme.call
          /\ lexeme.text \in {ModuleHelpers[i].name : i \in 1..Len(ModuleHelpers)}
    THEN [lexeme EXCEPT !.text = prefix \o "_" \o lexeme.text]
    ELSE lexeme

C29_RewriteReplacesReferences ==
    result.op = "rewrite" =>
        result.body = BodyText([i \in 1..Len(result.lexemes) |->
                                   Prefixed(result.lexemes[i], result.prefix,
                                            result.uniforms)])

(***************************************************************************)
(* The clock under a host that keeps delivering frames: wall time passes   *)
(* only from one frame to the next, a frame that can begin does begin,     *)
(* and a callback that is due is run.                                      *)
(***************************************************************************)
NextClockFrames == Start \/ Stop \/ SetMaxFps \/ BeginFrame \/ Loop

SpecClockFair ==
    InitClock /\ [][NextClockFrames]_vars /\ WF_vars(BeginFrame) /\ WF_vars(Loop)

\* wall time leaves room for two more frames
TwoFramesLeft == \A d \in WallSteps : host.now + d + d <= MaxNow

FrameTimes == {t \in 0..MaxNow : \A d \in WallSteps : t % d = 0}

\* the last thing that happened is a tick after time t that invoked the callback
RenderedAfter(t) ==
    /\ result.op = "loop"
    /\ result.calls # <<>>
    /\ result.arg > t

(***************************************************************************)
(* C30: while the clock is running a tick is scheduled, and from any       *)
(* moment at which it is running, with room for two more frames, either    *)
(* it stops running or a later tick invokes the callback, whatever maxFps  *)
(* is.                                                                     *)
(***************************************************************************)
C30_RunningKeepsRendering ==
    /\ [](clock.running => Scheduled >= 1)
    /\ \A t \in FrameTimes :
          (clock.running /\ host.now = t /\ TwoFramesLeft)
              ~> (~clock.running \/ RenderedAfter(t))

C30_Witness ==
    /\ clock.running
    /\ clock.maxFps = 60
    /\ clock.frame = 2
    /\ RenderedAfter(20)
    /\ Scheduled = 1

====
